---- MODULE Spec2Model ----
(***************************************************************************)
(* Race lifecycle of racesim (backend/scheduler/jobs.py, backend/main.py,  *)
(* backend/storage.py, backend/bots.py, backend/simulation/engine.py).     *)
(*                                                                         *)
(* Concurrency model.  Everything runs on one asyncio event loop, so a     *)
(* coroutine is only interleaved with others where it really suspends.     *)
(* storage.load_json / save_json take a per-file asyncio.Lock that is      *)
(* released before the next suspension, so the lock is never contended and *)
(* `await load_race`, `await save_race`, `await load_player`,              *)
(* `await save_player` never suspend; broadcaster.broadcast puts into      *)
(* unbounded queues and never suspends either.  The suspension points are  *)
(* `await asyncio.sleep(interval)` in run_race_job's tick loop and the     *)
(* WebSocket I/O of ws_race.  Hence every HTTP handler and                 *)
(* lock_race_entries is one atomic action, and run_race_job is cut into    *)
(* atomic segments at each sleep.                                          *)
(*                                                                         *)
(* Units.  Time is counted in units of 10 minutes (the lock lead time).    *)
(* Readiness is counted in tenths of a percent (1000 = 100.0 %).  Uniform  *)
(* random draws are counted in hundredths (50 = 0.50).                     *)
(*                                                                         *)
(* Specifications.  Spec, SpecAnyTable and SpecReset follow the race       *)
(* lifecycle; there a stored result list carries every field but luck_tag  *)
(* and per_slot, which no lifecycle step reads.  SpecSim calls             *)
(* simulate_race directly on races drawn from bounded sets and carries the *)
(* luck_tag with its unseeded random.choice.  SpecTrack follows            *)
(* generate_track (backend/track_gen.py) through every random outcome.     *)
(***************************************************************************)
EXTENDS Integers, Sequences, FiniteSets, TLC

VARIABLES
    now,        \* wall clock (datetime.now), in 10-minute units
    slots,      \* the timetable read from SCHEDULE_FILE: sequence of slots
    races,      \* RACES_DIR: race id -> persisted Race record (file exists iff in DOMAIN)
    writes,     \* history: race id -> the distinct statuses save_race stored, in order
    players,    \* PLAYERS_DIR: player id -> persisted Player record
    lockTrig,   \* scheduler job store, ids "lock_<race>": race id -> run dates
    runTrig,    \* scheduler job store, ids "run_<race>":  race id -> run dates
    pending,    \* run_race_job tasks created by admin_start_race, not yet started
    adminStarts,\* history: the number of tasks admin_start_race created
    requests,   \* history: the number of player requests that were accepted
    jobs,       \* run_race_job invocations suspended in the tick loop
    resets,     \* history: the times at which reset_schedule ran
    walk,       \* generate_track in progress: grid size, attempt, path so far, outcome
    profile,    \* build_speed_profile in progress: track, speeds, sweep, position
    stream,     \* generate_tick_stream in progress: inputs, per-car state, last snapshot
    ws          \* the broadcaster's queues and the ws_race handlers of the clients

vars == <<now, slots, races, writes, players, lockTrig, runTrig, pending, adminStarts,
          requests, jobs, resets, walk, profile, stream, ws>>

(***************************************************************************)
(* Bounds of the model.                                                    *)
(***************************************************************************)
DayLen == 3           \* 10-minute units per (scaled) day; 144 in reality
MaxTime == 2          \* the clock stops advancing here
MaxTicks == 2         \* longest tick stream considered
MaxAdminStarts == 1   \* admin_start_race requests considered
MaxRequests == 3      \* accepted player requests (enter, withdraw, repair, swap) considered
MaxResets == 1        \* reset_schedule calls considered
InitCredits == 250    \* credits of the players at start-up
MaxPosition == 4      \* finishing positions considered for the reward table
MaxSimEntries == 3    \* entries of a race handed to simulate_race directly
MaxCalls == 2         \* direct calls of simulate_race on one race
LuckTagChoices == 2   \* tags of each luck tag list random.choice picks from; 5 in reality
MaxClients == 1       \* WebSocket clients considered

(***************************************************************************)
(* Program constants (backend/config.py, backend/scheduler/jobs.py).       *)
(* RACE_WINDOW, BOT_GRID_TARGET and TRACK_MAX_RETRIES are scaled down from *)
(* 30, 6 and 10.                                                           *)
(***************************************************************************)
RACE_WINDOW == 2
BOT_GRID_TARGET == 2
LOCK_LEAD == 1
TRACK_MIN_STEPS == 24
TRACK_MAX_RETRIES == 2
TILE_FEET == 30                \* feet
TOP_SPEED_FPS == 17600         \* 120 mph, in hundredths of a foot per second
CORNER_SPEED_FPS == 8800       \* 60 mph
CHICANE_SPEED_FPS == 6600      \* 45 mph
ACCEL_FPS2 == 16087            \* 0.5 g, in thousandths of a foot per second squared
BRAKE_FPS2 == 32174            \* 1.0 g
SWEEP_CAP == 10                \* range(10) in build_speed_profile
RACE_TICK_INTERVAL_MS == 62    \* milliseconds
TRAILING_GRACE_TICKS == 160
MAX_TICKS == 500               \* max_ticks of generate_tick_stream, scaled down from 200000
ENTRY_FEE == 100
DEFAULT_REWARD == 100
BASE_WEAR_PCT == 150
WEIGHT_LIMIT == 70

BOT_PLAYER_ID_PREFIX == "bot_"

SLOT_NAMES == <<"engine", "tires", "suspension", "aero", "fuel", "electronics">>

SlotSet == {SLOT_NAMES[i] : i \in 1..Len(SLOT_NAMES)}

Tiers == {"standard", "upgraded", "performance"}

TIER_SCORES == [standard |-> 40, upgraded |-> 70, performance |-> 100]

TIER_UNLOCK_RACES == [standard |-> 0, upgraded |-> 10, performance |-> 30]

SLOT_SWAP_COSTS ==
    [engine      |-> [credits |-> 800, materials |-> 2],
     tires       |-> [credits |-> 300, materials |-> 1],
     suspension  |-> [credits |-> 400, materials |-> 1],
     aero        |-> [credits |-> 600, materials |-> 2],
     fuel        |-> [credits |-> 150, materials |-> 0],
     electronics |-> [credits |-> 500, materials |-> 2]]

SLOT_WEIGHT_UNITS ==
    [engine      |-> [standard |-> 10, upgraded |-> 14, performance |-> 18],
     tires       |-> [standard |-> 8,  upgraded |-> 10, performance |-> 13],
     suspension  |-> [standard |-> 6,  upgraded |-> 8,  performance |-> 11],
     aero        |-> [standard |-> 5,  upgraded |-> 7,  performance |-> 10],
     fuel        |-> [standard |-> 9,  upgraded |-> 11, performance |-> 15],
     electronics |-> [standard |-> 4,  upgraded |-> 6,  performance |-> 9]]

FINISH_REWARDS == [p \in {1, 2, 3} |-> CASE p = 1 -> 800 [] p = 2 -> 500 [] p = 3 -> 300]

\* Event weights in tenths (1.5 -> 15).
EVENT_SLOT_WEIGHTS ==
    [sprint       |-> [engine |-> 15, tires |-> 10, suspension |-> 10, aero |-> 10, fuel |-> 10, electronics |-> 10],
     endurance    |-> [engine |-> 10, tires |-> 14, suspension |-> 10, aero |-> 10, fuel |-> 14, electronics |-> 10],
     time_trial   |-> [engine |-> 10, tires |-> 10, suspension |-> 10, aero |-> 10, fuel |-> 10, electronics |-> 10],
     wet_track    |-> [engine |-> 10, tires |-> 15, suspension |-> 13, aero |-> 10, fuel |-> 10, electronics |-> 10],
     night_race   |-> [engine |-> 10, tires |-> 10, suspension |-> 10, aero |-> 10, fuel |-> 10, electronics |-> 15],
     altitude     |-> [engine |-> 8,  tires |-> 10, suspension |-> 14, aero |-> 13, fuel |-> 10, electronics |-> 10],
     spec_class   |-> [engine |-> 10, tires |-> 10, suspension |-> 10, aero |-> 10, fuel |-> 10, electronics |-> 14],
     weight_limit |-> [engine |-> 10, tires |-> 10, suspension |-> 10, aero |-> 10, fuel |-> 10, electronics |-> 10]]

\* Wear multipliers in tenths (1.8 -> 18).
WEAR_MULTIPLIERS ==
    [sprint |-> 10, endurance |-> 18, time_trial |-> 8, wet_track |-> 12,
     night_race |-> 10, altitude |-> 11, spec_class |-> 10, weight_limit |-> 10]

EVENT_STRESSED_SLOTS ==
    [sprint       |-> {"engine"},
     endurance    |-> {"fuel", "tires"},
     time_trial   |-> {},
     wet_track    |-> {"tires", "suspension"},
     night_race   |-> {"electronics"},
     altitude     |-> {"suspension", "aero"},
     spec_class   |-> {"electronics"},
     weight_limit |-> {"aero", "fuel"}]

(***************************************************************************)
(* Small helpers.                                                          *)
(***************************************************************************)
Max2(a, b) == IF a >= b THEN a ELSE b

Min2(a, b) == IF a <= b THEN a ELSE b

MinOf(S) == CHOOSE m \in S : \A k \in S : m <= k

RECURSIVE SumOver(_, _)
SumOver(f, S) ==
    IF S = {} THEN 0
    ELSE LET k == CHOOSE k \in S : TRUE IN f[k] + SumOver(f, S \ {k})

\* dict[k] = v
Put(d, k, v) == [r \in DOMAIN d \cup {k} |-> IF r = k THEN v ELSE d[r]]

\* del dict[k]
Drop(d, k) == [r \in DOMAIN d \ {k} |-> d[r]]

RemoveAt(s, i) == [k \in 1..(Len(s) - 1) |-> IF k < i THEN s[k] ELSE s[k + 1]]

(***************************************************************************)
(* models.py: cars, players, entries, races.                               *)
(***************************************************************************)
\* Optional[CarSlots] = None
NoCar == [none |-> TRUE]

\* Optional[str] = None
NoSlot == ""

SlotPart(tier, readiness) == [tier |-> tier, readiness |-> readiness]

\* CarSlots(): every slot SlotPart(tier="standard", readiness=100.0)
CarSlots == [s \in SlotSet |-> SlotPart("standard", 1000)]

set_slot(car, name, part) == [car EXCEPT ![name] = part]

Player(credits, materials, races_entered, car) ==
    [credits |-> credits, materials |-> materials,
     races_entered |-> races_entered, car |-> car]

RaceEntry(player_id, locked_car) == [player_id |-> player_id, locked_car |-> locked_car]

Race(id, scheduled_time, event_type, lap_count, track) ==
    [id |-> id, scheduled_time |-> scheduled_time, event_type |-> event_type,
     status |-> "open", entry_fee |-> ENTRY_FEE, lap_count |-> lap_count,
     track |-> track, entries |-> <<>>, results |-> <<>>]

IsBot(player_id) == player_id[1] = BOT_PLAYER_ID_PREFIX

(***************************************************************************)
(* Seeded randomness.  random.Random(seed) is a fixed stream of uniform    *)
(* draws determined by the seed; a stream is a sequence of draws in        *)
(* hundredths.  sha256 is stood in for by a fixed mixing function of the   *)
(* same arguments.                                                         *)
(***************************************************************************)
DrawVals == <<5, 50, 95>>

IdCode(player_id) == player_id[2] + (IF IsBot(player_id) THEN 3 ELSE 0)

StreamOf(seed) == [k \in 1..(2 * Len(SLOT_NAMES)) |-> DrawVals[((seed + k * k) % Len(DrawVals)) + 1]]

_seeded_rng(race_id, player_id) ==
    StreamOf(race_id[1] * 5 + race_id[2] * 3 + IdCode(player_id) * 2)

_bot_rng(race_id, bot_index) ==
    StreamOf(race_id[1] * 7 + race_id[2] + bot_index * 2 + 1)

\* round(n / d) for n >= 0
RoundDiv(n, d) == (2 * n + d) \div (2 * d)

(***************************************************************************)
(* simulation/engine.py: per-entry computations.  Scores are kept exact as *)
(* integers over the denominator ScoreDen(event_type).                     *)
(***************************************************************************)
TotalW(event_type) == SumOver(EVENT_SLOT_WEIGHTS[event_type], SlotSet)

ScoreDen(event_type) == 6000 * TotalW(event_type)

\* sum of the tier scores; _build_quality is this over len(SLOT_NAMES)
TierSum(car) == SumOver([s \in SlotSet |-> TIER_SCORES[car[s].tier]], SlotSet)

_build_quality(car) == RoundDiv(TierSum(car) * 100, Len(SLOT_NAMES))

EventPenalty(car, event_type) ==
    IF event_type = "wet_track" /\ car["tires"].tier = "standard" THEN 15
    ELSE IF event_type = "night_race" /\ car["electronics"].tier = "standard" THEN 10
    ELSE IF event_type = "endurance"
         THEN (IF car["tires"].readiness < 500 \/ car["fuel"].readiness < 500 THEN 10 ELSE 0)
    ELSE IF event_type = "weight_limit"
         THEN (IF SumOver([s \in SlotSet |-> SLOT_WEIGHT_UNITS[s][car[s].tier]], SlotSet) > WEIGHT_LIMIT
               THEN 20 ELSE 0)
    ELSE 0

\* max(0, raw_fit - penalty) * TotalW(event_type)
EventFitNum(car, event_type) ==
    LET weights == EVENT_SLOT_WEIGHTS[event_type]
        weighted_sum == SumOver([s \in SlotSet |-> TIER_SCORES[car[s].tier] * weights[s]], SlotSet)
    IN  Max2(0, weighted_sum - EventPenalty(car, event_type) * TotalW(event_type))

_event_fit(car, event_type) == RoundDiv(EventFitNum(car, event_type) * 100, TotalW(event_type))

\* total of the penalised readiness values, in tenths
ReadinessSum(car) ==
    SumOver([s \in SlotSet |->
                LET r == car[s].readiness
                IN  IF r < 500 THEN Max2(0, r - (500 - r)) ELSE r], SlotSet)

_readiness_score(car) == RoundDiv(ReadinessSum(car) * 10, Len(SLOT_NAMES))

\* walks the slots in order from slot i, having consumed k draws
RECURSIVE CheckDnfFrom(_, _, _, _)
CheckDnfFrom(car, rng, i, k) ==
    IF i > Len(SLOT_NAMES) THEN [dnf |-> FALSE, dnf_slot |-> NoSlot, used |-> k]
    ELSE IF car[SLOT_NAMES[i]].readiness < 200
         THEN IF rng[k + 1] < 10
              THEN [dnf |-> TRUE, dnf_slot |-> SLOT_NAMES[i], used |-> k + 1]
              ELSE CheckDnfFrom(car, rng, i + 1, k + 1)
         ELSE CheckDnfFrom(car, rng, i + 1, k)

\* _check_dnf rolling for the first slot whatever its readiness
_check_dnf_any_readiness(car, rng) ==
    [dnf |-> rng[1] < 10,
     dnf_slot |-> IF rng[1] < 10 THEN SLOT_NAMES[1] ELSE NoSlot,
     used |-> 1]

_check_dnf(car, rng) == CheckDnfFrom(car, rng, 1, 0)

\* rng.uniform(-luck_range, luck_range), in hundredths
LuckDraw(u, luck_range) == luck_range * (2 * u - 100)

\* the unclamped score without luck, over ScoreDen
NeutralNum(car, event_type) ==
    LET bq_weight == IF event_type = "time_trial" THEN 50 ELSE 40
    IN  TierSum(car) * bq_weight * 10 * TotalW(event_type)
        + 2100 * EventFitNum(car, event_type)
        + 25 * ReadinessSum(car) * TotalW(event_type)

\* the result tuple of one entrant with the score left outside [0, 100]
ScoredResult_unclamped(entry, event_type, d, luck, neutral) ==
    [player_id |-> entry.player_id,
     score |-> IF d.dnf THEN 0 ELSE neutral + 60 * luck * TotalW(event_type),
     neutral |-> neutral,
     build_quality |-> _build_quality(entry.locked_car),
     event_fit |-> _event_fit(entry.locked_car, event_type),
     readiness_score |-> _readiness_score(entry.locked_car),
     luck_delta |-> luck, dnf |-> d.dnf, dnf_slot |-> d.dnf_slot]

\* the result tuple of one entrant with the score of a DNF left as computed
ScoredResult_dnf_scored(entry, event_type, d, luck, neutral) ==
    [player_id |-> entry.player_id,
     score |-> Max2(0, Min2(100 * ScoreDen(event_type),
                            neutral + 60 * luck * TotalW(event_type))),
     neutral |-> neutral,
     build_quality |-> _build_quality(entry.locked_car),
     event_fit |-> _event_fit(entry.locked_car, event_type),
     readiness_score |-> _readiness_score(entry.locked_car),
     luck_delta |-> luck, dnf |-> d.dnf, dnf_slot |-> d.dnf_slot]

\* the result tuple of one entrant, given its DNF outcome, luck and neutral score
ScoredResult(entry, event_type, d, luck, neutral) ==
    [player_id |-> entry.player_id,
     score |-> IF d.dnf THEN 0
               ELSE Max2(0, Min2(100 * ScoreDen(event_type),
                                 neutral + 60 * luck * TotalW(event_type))),
     neutral |-> neutral,
     build_quality |-> _build_quality(entry.locked_car),
     event_fit |-> _event_fit(entry.locked_car, event_type),
     readiness_score |-> _readiness_score(entry.locked_car),
     luck_delta |-> luck, dnf |-> d.dnf, dnf_slot |-> d.dnf_slot]

\* the luck draw follows the draws _check_dnf consumed
AfterDnf(entry, event_type, rng, d) ==
    ScoredResult(entry, event_type, d,
                 LuckDraw(rng[d.used + 1], IF event_type = "time_trial" THEN 5 ELSE 15),
                 NeutralNum(entry.locked_car, event_type))

RawResult(entry, event_type, rng) ==
    AfterDnf(entry, event_type, rng, _check_dnf(entry.locked_car, rng))

\* a sort that leaves the list in the order of the entries
SortDesc_entry_order(seq, key) == seq

\* a descending sort that puts the later of two equal keys first
SortDesc_later_first(seq, key) ==
    [p \in 1..Len(seq) |->
        seq[CHOOSE i \in 1..Len(seq) :
                1 + Cardinality({j \in 1..Len(seq) : seq[j][key] > seq[i][key]})
                  + Cardinality({j \in (i + 1)..Len(seq) : seq[j][key] = seq[i][key]}) = p]]

\* list.sort(key=..., reverse=True): stable, descending
SortPos(seq, key, i) ==
    1 + Cardinality({j \in 1..Len(seq) : seq[j][key] > seq[i][key]})
      + Cardinality({j \in 1..(i - 1) : seq[j][key] = seq[i][key]})

SortDesc(seq, key) ==
    [p \in 1..Len(seq) |-> seq[CHOOSE i \in 1..Len(seq) : SortPos(seq, key, i) = p]]

HasCar(entry) == entry.locked_car # NoCar

\* KeyError of EVENT_SLOT_WEIGHTS[event_type] in _event_fit
SimulateRaises(race) ==
    /\ race.event_type \notin DOMAIN EVENT_SLOT_WEIGHTS
    /\ \E i \in 1..Len(race.entries) : HasCar(race.entries[i])

\* {pid: i + 1 for i, (pid, _) in enumerate(neutral_scores)}: the last index wins
cf_rank(neutral_scores, pid) ==
    CHOOSE i \in 1..Len(neutral_scores) :
        /\ neutral_scores[i].player_id = pid
        /\ \A j \in (i + 1)..Len(neutral_scores) : neutral_scores[j].player_id # pid

EntryResult(r, pos, neutral_scores, event_type) ==
    [player_id |-> r.player_id,
     position |-> pos,
     result_score |-> RoundDiv(r.score, ScoreDen(event_type) \div 100),
     build_quality |-> r.build_quality,
     event_fit |-> r.event_fit,
     readiness_score |-> r.readiness_score,
     luck_delta |-> r.luck_delta,
     counterfactual_position |-> cf_rank(neutral_scores, r.player_id),
     dnf |-> r.dnf,
     dnf_slot |-> r.dnf_slot]

\* the results list built from the sorted raw results
Ranked(raw_results, event_type) ==
    [pos \in 1..Len(raw_results) |->
        EntryResult(raw_results[pos], pos, SortDesc(raw_results, "neutral"), event_type)]

RawResults(locked, event_type, race_id) ==
    [i \in 1..Len(locked) |->
        RawResult(locked[i], event_type, _seeded_rng(race_id, locked[i].player_id))]

\* simulate_race giving an entry without a locked car a factory car
simulate_race_default_car(race) ==
    Ranked(SortDesc(RawResults([i \in 1..Len(race.entries) |->
                                   IF HasCar(race.entries[i]) THEN race.entries[i]
                                   ELSE RaceEntry(race.entries[i].player_id, CarSlots)],
                               race.event_type, race.id),
                    "score"),
           race.event_type)

simulate_race(race) ==
    Ranked(SortDesc(RawResults(SelectSeq(race.entries, HasCar), race.event_type, race.id),
                    "score"),
           race.event_type)

\* the first LuckTagChoices tags of the two lists
_LUCK_TAGS_POSITIVE == <<"Perfect run through all sectors", "Clean air throughout">>

_LUCK_TAGS_NEGATIVE == <<"Mechanical issue on lap 3", "Traffic incident cost time">>

_LUCK_TAG_NEUTRAL == "Uneventful run - luck was a non-factor"

\* random.choice draws from the module-level generator, which nothing seeds:
\* choice is the index that generator happens to produce
_luck_tag(delta, choice) ==
    IF delta > 500 THEN _LUCK_TAGS_POSITIVE[choice]
    ELSE IF delta < -500 THEN _LUCK_TAGS_NEGATIVE[choice]
    ELSE _LUCK_TAG_NEUTRAL

\* the results with the luck_tag field; choices[pos] is the outcome of the
\* random.choice evaluated for the result at position pos
WithLuckTags(results, choices) ==
    [pos \in 1..Len(results) |->
        [player_id |-> results[pos].player_id,
         position |-> results[pos].position,
         result_score |-> results[pos].result_score,
         build_quality |-> results[pos].build_quality,
         event_fit |-> results[pos].event_fit,
         readiness_score |-> results[pos].readiness_score,
         luck_delta |-> results[pos].luck_delta,
         counterfactual_position |-> results[pos].counterfactual_position,
         luck_tag |-> _luck_tag(results[pos].luck_delta, choices[pos]),
         dnf |-> results[pos].dnf,
         dnf_slot |-> results[pos].dnf_slot]]

\* round(x, 1) of a value in hundredths to tenths, ties to even
Round1(n) ==
    LET q == n \div 10
        r == n % 10
    IN  IF r > 5 \/ (r = 5 /\ q % 2 = 1) THEN q + 1 ELSE q

\* apply_wear without the floor of max(0.0, ...)
apply_wear_unfloored(car, event_type) ==
    LET multiplier == IF event_type \in DOMAIN WEAR_MULTIPLIERS
                      THEN WEAR_MULTIPLIERS[event_type] ELSE 10
        stressed == IF event_type \in DOMAIN EVENT_STRESSED_SLOTS
                    THEN EVENT_STRESSED_SLOTS[event_type] ELSE {}
    IN  [s \in SlotSet |->
            LET wear == BASE_WEAR_PCT * multiplier * (IF s \in stressed THEN 15 ELSE 10)
            IN  SlotPart(car[s].tier, Round1((car[s].readiness * 100 - wear) \div 10))]

apply_wear(car, event_type) ==
    LET multiplier == IF event_type \in DOMAIN WEAR_MULTIPLIERS
                      THEN WEAR_MULTIPLIERS[event_type] ELSE 10
        stressed == IF event_type \in DOMAIN EVENT_STRESSED_SLOTS
                    THEN EVENT_STRESSED_SLOTS[event_type] ELSE {}
    IN  [s \in SlotSet |->
            \* wear in thousandths of a percent: BASE_WEAR_PCT * multiplier (* 1.5)
            LET wear == BASE_WEAR_PCT * multiplier * (IF s \in stressed THEN 15 ELSE 10)
                new_r == Max2(0, car[s].readiness * 100 - wear)
            IN  SlotPart(car[s].tier, Round1(new_r \div 10))]

(***************************************************************************)
(* bots.py                                                                 *)
(***************************************************************************)
BRACKET_ORDER == <<"weak", "mid", "strong">>

BRACKETS ==
    [weak   |-> [tier_weights |-> <<70, 25, 5>>,  lo |-> 50, hi |-> 85],
     mid    |-> [tier_weights |-> <<30, 50, 20>>, lo |-> 60, hi |-> 95],
     strong |-> [tier_weights |-> <<5, 45, 50>>,  lo |-> 75, hi |-> 100]]

\* rng.choices(TIERS, weights=weights, k=1)[0] for the draw u
ChooseTier(weights, u) ==
    IF u < weights[1] THEN "standard"
    ELSE IF u < weights[1] + weights[2] THEN "upgraded"
    ELSE "performance"

_generate_bot_car(rng, bracket) ==
    [s \in SlotSet |->
        LET i == CHOOSE i \in 1..Len(SLOT_NAMES) : SLOT_NAMES[i] = s
            tier == ChooseTier(bracket.tier_weights, rng[2 * i - 1])
            \* round(rng.uniform(lo, hi), 1), in tenths
            readiness == RoundDiv((bracket.lo * 100 + (bracket.hi - bracket.lo) * rng[2 * i]) , 10)
        IN  SlotPart(tier, readiness)]

\* generate_bot_entries filling the whole grid whatever the entry count (line 51)
generate_bot_entries_full_grid(race_id, current_entry_count) ==
    [k \in 1..BOT_GRID_TARGET |->
        RaceEntry(<<BOT_PLAYER_ID_PREFIX, k - 1>>,
                  _generate_bot_car(_bot_rng(race_id, k - 1),
                                    BRACKETS[BRACKET_ORDER[((k - 1) % Len(BRACKET_ORDER)) + 1]]))]

generate_bot_entries(race_id, current_entry_count) ==
    LET bots_needed == Max2(0, BOT_GRID_TARGET - current_entry_count)
    IN  [k \in 1..bots_needed |->
            LET i == k - 1
                bracket == BRACKETS[BRACKET_ORDER[(i % Len(BRACKET_ORDER)) + 1]]
            IN  RaceEntry(<<BOT_PLAYER_ID_PREFIX, i>>,
                          _generate_bot_car(_bot_rng(race_id, i), bracket))]

(***************************************************************************)
(* storage.py and the scheduler's job store.  A store value st is the      *)
(* record [races, writes, lockTrig, runTrig] that the operations thread    *)
(* through.                                                                *)
(***************************************************************************)
Store == [races |-> races, writes |-> writes, lockTrig |-> lockTrig, runTrig |-> runTrig]

EmptyDict == [k \in {} |-> 0]

EmptyStore == [races |-> EmptyDict, writes |-> EmptyDict,
               lockTrig |-> EmptyDict, runTrig |-> EmptyDict]

\* the history of statuses written for a race file grows when the status changes
LogWrite(w, race) ==
    LET old == IF race.id \in DOMAIN w THEN w[race.id] ELSE <<>>
    IN  IF old # <<>> /\ old[Len(old)] = race.status THEN w
        ELSE Put(w, race.id, Append(old, race.status))

save_race(st, race) ==
    [st EXCEPT !.races = Put(@, race.id, race), !.writes = LogWrite(@, race)]

save_player(pl, player_id, player) == Put(pl, player_id, player)

\* scheduler.add_job that keeps the trigger already registered under the id
add_job_keep_existing(trig, race_id, run_date) ==
    Put(trig, race_id, (IF race_id \in DOMAIN trig THEN trig[race_id] ELSE <<>>) \o <<run_date>>)

\* scheduler.add_job(..., id=..., replace_existing=True)
add_job(trig, race_id, run_date) == Put(trig, race_id, <<run_date>>)

\* a date trigger leaves the job store when it fires
remove_job(trig, race_id) ==
    IF Len(trig[race_id]) <= 1 THEN Drop(trig, race_id)
    ELSE Put(trig, race_id, Tail(trig[race_id]))

Due(trig, t) == {r \in DOMAIN trig : trig[r][1] <= t}

(***************************************************************************)
(* scheduler/jobs.py                                                       *)
(***************************************************************************)
\* generate_track(n) draws from an unseeded generator: a track is represented
\* by the call that produced it (the race it was made for and the time of the call)
generate_track(race_id, t) == [made_for |-> race_id, made_at |-> t]

_race_id(date, slot_time) == <<date, slot_time>>

_parse_slot_time(slot_time, base_date) == base_date * DayLen + slot_time

\* the scheduled time of a race id
SlotDt(race_id) == _parse_slot_time(race_id[2], race_id[1])

ensure_race_exists(st, race_id, scheduled_dt, event_type, lap_count, track) ==
    IF race_id \in DOMAIN st.races THEN st
    ELSE save_race(st, Race(race_id, scheduled_dt, event_type, lap_count, track))

\* lock_race_entries taking a factory car instead of the player's car (line 77)
lock_race_entries_factory_car(st, pl, race_id) ==
    IF race_id \notin DOMAIN st.races \/ st.races[race_id].status # "open" THEN st
    ELSE LET race == st.races[race_id]
             locked_entries ==
                 [i \in 1..Len(race.entries) |->
                     [race.entries[i] EXCEPT !.locked_car = CarSlots]]
         IN  save_race(st, [race EXCEPT !.status = "locked", !.entries = locked_entries])

\* lock_race_entries without its status check (line 70)
lock_race_entries_any_status(st, pl, race_id) ==
    IF race_id \notin DOMAIN st.races THEN st
    ELSE LET race == st.races[race_id]
             locked_entries ==
                 [i \in 1..Len(race.entries) |->
                     LET entry == race.entries[i]
                     IN  IF entry.player_id \in DOMAIN pl
                         THEN [entry EXCEPT !.locked_car = pl[entry.player_id].car]
                         ELSE entry]
         IN  save_race(st, [race EXCEPT !.status = "locked", !.entries = locked_entries])

lock_race_entries(st, pl, race_id) ==
    IF race_id \notin DOMAIN st.races \/ st.races[race_id].status # "open" THEN st
    ELSE LET race == st.races[race_id]
             locked_entries ==
                 [i \in 1..Len(race.entries) |->
                     LET entry == race.entries[i]
                     IN  IF entry.player_id \in DOMAIN pl
                         THEN [entry EXCEPT !.locked_car = pl[entry.player_id].car]
                         ELSE entry]
         IN  save_race(st, [race EXCEPT !.status = "locked", !.entries = locked_entries])

\* register_next_n_races without the add_job of the lock trigger (lines 219-227)
ArmTriggers_run_only(st, race_id, slot_dt, t) ==
    [st EXCEPT !.runTrig = IF slot_dt > t THEN add_job(@, race_id, slot_dt) ELSE @]

\* scheduler.add_job of the lock and run triggers that are still ahead
ArmTriggers(st, race_id, slot_dt, t) ==
    [st EXCEPT !.lockTrig = IF slot_dt - LOCK_LEAD > t
                            THEN add_job(@, race_id, slot_dt - LOCK_LEAD) ELSE @,
               !.runTrig = IF slot_dt > t THEN add_job(@, race_id, slot_dt) ELSE @]

RegisterAt(st, slot, race_id, slot_dt, t) ==
    ArmTriggers(ensure_race_exists(st, race_id, slot_dt, slot.event_type, slot.lap_count,
                                   generate_track(race_id, t)),
                race_id, slot_dt, t)

\* the body of the while loop of register_next_n_races
RegisterSlot(st, slot, current_date, t) ==
    RegisterAt(st, slot, _race_id(current_date, slot.time),
               _parse_slot_time(slot.time, current_date), t)

\* the while loop of register_next_n_races
RECURSIVE RegisterWalk(_, _, _, _, _, _, _)
RegisterWalk(st, table, n, t, idx, current_date, counted) ==
    IF counted >= n THEN st
    ELSE IF idx > Len(table)
    THEN RegisterWalk(st, table, n, t, 1, current_date + 1, counted)
    ELSE RegisterWalk(RegisterSlot(st, table[idx], current_date, t),
                      table, n, t, idx + 1, current_date, counted + 1)

register_next_n_races(st, table, n, t) ==
    LET today == t \div DayLen
        future == {i \in 1..Len(table) : _parse_slot_time(table[i].time, today) > t}
        start_idx == IF future # {} THEN MinOf(future) ELSE 1
        base_date == IF future # {} THEN today ELSE today + 1
    IN  RegisterWalk(st, table, n, t, start_idx, base_date, 0)

\* the reward and wear loop of run_race_job leaving after its first result
ApplyRewards_first_only(pl, results, event_type, i) ==
    IF i > Len(results) \/ results[i].player_id \notin DOMAIN pl THEN pl
    ELSE save_player(pl, results[i].player_id,
             [pl[results[i].player_id] EXCEPT
                 !.credits = @ + (IF results[i].position \in DOMAIN FINISH_REWARDS
                                  THEN FINISH_REWARDS[results[i].position]
                                  ELSE DEFAULT_REWARD),
                 !.races_entered = @ + 1,
                 !.car = apply_wear(@, event_type)])

\* the reward and wear loop of run_race_job
RECURSIVE ApplyRewards(_, _, _, _)
ApplyRewards(pl, results, event_type, i) ==
    IF i > Len(results) THEN pl
    ELSE LET result == results[i]
             pid == result.player_id
         IN  IF pid \notin DOMAIN pl THEN ApplyRewards(pl, results, event_type, i + 1)
             ELSE LET player == pl[pid]
                      reward == IF result.position \in DOMAIN FINISH_REWARDS
                                THEN FINISH_REWARDS[result.position] ELSE DEFAULT_REWARD
                      new_car == apply_wear(player.car, event_type)
                      updated == [player EXCEPT !.credits = @ + reward,
                                                !.races_entered = @ + 1,
                                                !.car = new_car]
                  IN  ApplyRewards(save_player(pl, pid, updated), results, event_type, i + 1)

\* run_race_job without lines 98-100
SyncLock_skipped(st, pl, race_id) == st

\* run_race_job lines 98-100: lock synchronously if the race is still open
SyncLock(st, pl, race_id) ==
    IF st.races[race_id].status = "open" THEN lock_race_entries(st, pl, race_id) ELSE st

\* run_race_job lines 102-107: fill the grid with bots
AddBots(st, race_id, bot_entries) ==
    IF bot_entries # <<>>
    THEN save_race(st, [st.races[race_id] EXCEPT !.entries = @ \o bot_entries])
    ELSE st

FillGrid(st, race_id) ==
    AddBots(st, race_id, generate_bot_entries(race_id, Len(st.races[race_id].entries)))

\* run_race_job lines 109-111
SetRunning(st, race_id) == save_race(st, [st.races[race_id] EXCEPT !.status = "running"])

\* run_race_job lines 114-115: the simulation, which may raise
Simulated(st, race_id) ==
    [st |-> st, ran |-> TRUE, raised |-> SimulateRaises(st.races[race_id]),
     race |-> st.races[race_id],
     results |-> IF SimulateRaises(st.races[race_id]) THEN <<>>
                 ELSE simulate_race(st.races[race_id])]

\* run_race_job without its status check (lines 94-95)
RunToSimulate_any_status(st, pl, race_id) ==
    IF race_id \notin DOMAIN st.races
    THEN [st |-> st, ran |-> FALSE, raised |-> FALSE, race |-> NoCar, results |-> <<>>]
    ELSE Simulated(SetRunning(FillGrid(SyncLock(st, pl, race_id), race_id), race_id), race_id)

\* run_race_job from its start to the first suspension (or to its end):
\* out.ran (the status check passed), out.raised (simulate_race raised)
RunToSimulate(st, pl, race_id) ==
    IF race_id \notin DOMAIN st.races
       \/ st.races[race_id].status \notin {"open", "locked"}
    THEN [st |-> st, ran |-> FALSE, raised |-> FALSE, race |-> NoCar, results |-> <<>>]
    ELSE Simulated(SetRunning(FillGrid(SyncLock(st, pl, race_id), race_id), race_id), race_id)

\* run_race_job after the tick loop: persist the results, reward, top up
FinishRace(st, pl, table, t, race, results) ==
    LET finished == [race EXCEPT !.status = "finished", !.results = results]
        st1 == save_race(st, finished)
        pl1 == ApplyRewards(pl, results, race.event_type, 1)
        st2 == register_next_n_races(st1, table, RACE_WINDOW, t)
    IN  [st |-> st2, players |-> pl1]

\* delete_all_races and the removal of every lock_/run_ job
reset_schedule(st, table, t) ==
    register_next_n_races(EmptyStore, table, RACE_WINDOW, t)

(***************************************************************************)
(* main.py: the HTTP handlers.  A rejected request (HTTPException) leaves  *)
(* the state as it is.                                                     *)
(***************************************************************************)
Entered(race, player_id) ==
    \E i \in 1..Len(race.entries) : race.entries[i].player_id = player_id

NotPlayer(player_id, entry) == entry.player_id # player_id

\* enter_race without its status check (lines 260-261)
enter_race_any_status(st, pl, player_id, race_id) ==
    IF race_id \notin DOMAIN st.races THEN [st |-> st, players |-> pl]
    ELSE LET race == st.races[race_id]
             player == pl[player_id]
         IN  IF Entered(race, player_id) \/ player.credits < race.entry_fee
             THEN [st |-> st, players |-> pl]
             ELSE [st |-> save_race(st, [race EXCEPT !.entries =
                                             Append(@, RaceEntry(player_id, NoCar))]),
                   players |-> save_player(pl, player_id,
                                   [player EXCEPT !.credits = @ - race.entry_fee])]

\* enter_race putting the player's car into the new entry as its locked car
enter_race_car_locked(st, pl, player_id, race_id) ==
    IF race_id \notin DOMAIN st.races THEN [st |-> st, players |-> pl]
    ELSE LET race == st.races[race_id]
             player == pl[player_id]
         IN  IF race.status # "open" \/ Entered(race, player_id)
                \/ player.credits < race.entry_fee
             THEN [st |-> st, players |-> pl]
             ELSE [st |-> save_race(st, [race EXCEPT !.entries =
                                             Append(@, RaceEntry(player_id, player.car))]),
                   players |-> save_player(pl, player_id,
                                   [player EXCEPT !.credits = @ - race.entry_fee])]

\* enter_race without its already-entered check (lines 263-264)
enter_race_again(st, pl, player_id, race_id) ==
    IF race_id \notin DOMAIN st.races THEN [st |-> st, players |-> pl]
    ELSE LET race == st.races[race_id]
             player == pl[player_id]
         IN  IF race.status # "open" \/ player.credits < race.entry_fee
             THEN [st |-> st, players |-> pl]
             ELSE [st |-> save_race(st, [race EXCEPT !.entries =
                                             Append(@, RaceEntry(player_id, NoCar))]),
                   players |-> save_player(pl, player_id,
                                   [player EXCEPT !.credits = @ - race.entry_fee])]

enter_race(st, pl, player_id, race_id) ==
    IF race_id \notin DOMAIN st.races THEN [st |-> st, players |-> pl]
    ELSE LET race == st.races[race_id]
             player == pl[player_id]
         IN  IF race.status # "open" \/ Entered(race, player_id)
                \/ player.credits < race.entry_fee
             THEN [st |-> st, players |-> pl]
             ELSE [st |-> save_race(st, [race EXCEPT !.entries =
                                             Append(@, RaceEntry(player_id, NoCar))]),
                   players |-> save_player(pl, player_id,
                                   [player EXCEPT !.credits = @ - race.entry_fee])]

withdraw_race(st, pl, player_id, race_id) ==
    IF race_id \notin DOMAIN st.races THEN [st |-> st, players |-> pl]
    ELSE LET race == st.races[race_id]
             player == pl[player_id]
             refund == race.entry_fee \div 2
             new_entries == SelectSeq(race.entries, LAMBDA e : NotPlayer(player_id, e))
         IN  IF race.status # "open" \/ ~Entered(race, player_id)
             THEN [st |-> st, players |-> pl]
             ELSE [st |-> save_race(st, [race EXCEPT !.entries = new_entries]),
                   players |-> save_player(pl, player_id,
                                   [player EXCEPT !.credits = @ + refund])]

repair_slot(pl, player_id, slot) ==
    LET player == pl[player_id]
    IN  IF slot \notin SlotSet \/ player.materials < 1 \/ player.car[slot].readiness >= 1000
        THEN pl
        ELSE save_player(pl, player_id,
                 [player EXCEPT !.car = set_slot(@, slot, [@[slot] EXCEPT !.readiness = 1000]),
                                !.materials = @ - 1])

swap_slot(pl, player_id, slot, tier) ==
    LET player == pl[player_id]
    IN  IF slot \notin SlotSet \/ tier \notin DOMAIN TIER_SCORES
           \/ player.races_entered < TIER_UNLOCK_RACES[tier]
           \/ player.credits < SLOT_SWAP_COSTS[slot].credits
           \/ player.materials < SLOT_SWAP_COSTS[slot].materials
        THEN pl
        ELSE save_player(pl, player_id,
                 [player EXCEPT !.car = set_slot(@, slot, SlotPart(tier, 1000)),
                                !.credits = @ - SLOT_SWAP_COSTS[slot].credits,
                                !.materials = @ - SLOT_SWAP_COSTS[slot].materials])

\* admin_start_race creates a run_race_job task unless it answers 404 or 400
AdminStartOk(st, race_id) ==
    /\ race_id \in DOMAIN st.races
    /\ st.races[race_id].status \notin {"finished", "running"}

(***************************************************************************)
(* broadcast/race_broadcaster.py.  w.queues is _queues: race id -> the     *)
(* queues subscribed, each named by its client; a race id without an entry *)
(* stands for the empty list the defaultdict would create.  w.q holds the  *)
(* content of each queue.  A message carries the race it was broadcast for.*)
(***************************************************************************)
Message(race_id, type, tick) == [race |-> race_id, type |-> type, tick |-> tick]

QueuesOf(w, race_id) ==
    IF race_id \in DOMAIN w.queues THEN w.queues[race_id] ELSE <<>>

subscribe(w, race_id, c) ==
    [w EXCEPT !.queues = Put(@, race_id, Append(QueuesOf(w, race_id), c)),
              !.q = Put(@, c, <<>>)]

unsubscribe(w, race_id, c) ==
    [w EXCEPT !.queues = Put(@, race_id,
                             SelectSeq(QueuesOf(w, race_id), LAMBDA k : k # c))]

\* broadcast called for each of the messages in turn
broadcast(w, race_id, messages) ==
    [w EXCEPT !.q = [c \in DOMAIN w.q |->
                        IF \E k \in 1..Len(QueuesOf(w, race_id)) : QueuesOf(w, race_id)[k] = c
                        THEN w.q[c] \o messages ELSE w.q[c]]]

\* what run_race_job broadcasts up to its first suspension: the running
\* status, then the first snapshot, or finished when the stream is empty
RunMessages(out, race_id) ==
    IF ~out.ran THEN <<>>
    ELSE IF out.raised THEN <<Message(race_id, "status", 0)>>
    ELSE IF out.results = <<>>
    THEN <<Message(race_id, "status", 0), Message(race_id, "finished", 0)>>
    ELSE <<Message(race_id, "status", 0), Message(race_id, "tick", 1)>>

(***************************************************************************)
(* Inputs and initial state.                                               *)
(***************************************************************************)
PlayerIds == {<<"uuid", 1>>, <<"uuid", 2>>}

\* the slots and tiers the car requests are tried with
RequestSlots == {"tires", "fuel"}

RequestTiers == {"upgraded"}

ValidTable ==
    << [time |-> 1, event_type |-> "sprint", lap_count |-> 25],
       [time |-> 2, event_type |-> "time_trial", lap_count |-> 25] >>

\* a timetable with an event type the simulator has no weights for
OddTable ==
    << [time |-> 1, event_type |-> "sprint", lap_count |-> 25],
       [time |-> 2, event_type |-> "drag", lap_count |-> 25] >>

\* no call of generate_track is being followed
NoWalk == [n |-> 0, attempt |-> 0, path |-> <<>>, steps |-> 0, returned |-> "idle",
           track |-> [none |-> TRUE], seeded |-> FALSE, seed |-> 0, rng |-> 0,
           earlier |-> <<>>]

\* no call of build_speed_profile, no tick stream is being followed
NoProfile == [none |-> TRUE]

NoStream == [none |-> TRUE]

\* no client has connected
NoWs == [queues |-> EmptyDict, q |-> EmptyDict, client |-> EmptyDict]

\* a player who has raced before (worn tires, upgraded tier unlocked) and a newcomer
InitPlayers ==
    [p \in PlayerIds |->
        IF p[2] = 1
        THEN Player(InitCredits, 1, 10, set_slot(CarSlots, "tires", SlotPart("standard", 150)))
        ELSE Player(InitCredits, 0, 0, CarSlots)]

InitStore(st) ==
    /\ races = st.races
    /\ writes = st.writes
    /\ lockTrig = st.lockTrig
    /\ runTrig = st.runTrig

\* the state setup_scheduler leaves at start-up
InitWith(table) ==
    /\ now = 0
    /\ slots = table
    /\ players = InitPlayers
    /\ pending = <<>>
    /\ adminStarts = 0
    /\ requests = 0
    /\ jobs = <<>>
    /\ resets = <<>>
    /\ walk = NoWalk
    /\ ws = NoWs
    /\ profile = NoProfile
    /\ stream = NoStream
    /\ InitStore(register_next_n_races(EmptyStore, table, RACE_WINDOW, 0))

Init == InitWith(ValidTable)

InitAnyTable == \E table \in {ValidTable, OddTable} : InitWith(table)

(***************************************************************************)
(* Actions.                                                                *)
(***************************************************************************)
SetStore(st) ==
    /\ races' = st.races
    /\ writes' = st.writes
    /\ lockTrig' = st.lockTrig
    /\ runTrig' = st.runTrig

\* the clock advances once every due trigger has fired and every created task
\* has started
Tick ==
    /\ now < MaxTime
    /\ UNCHANGED <<walk, profile, stream, ws>>
    /\ Due(lockTrig, now) = {}
    /\ Due(runTrig, now) = {}
    /\ pending = <<>>
    /\ now' = now + 1
    /\ UNCHANGED <<slots, races, writes, players, lockTrig, runTrig, pending, adminStarts, requests, jobs, resets>>

FireLock(race_id) ==
    /\ race_id \in Due(lockTrig, now)
    /\ UNCHANGED <<walk, profile, stream, ws>>
    /\ SetStore(lock_race_entries([Store EXCEPT !.lockTrig = remove_job(@, race_id)],
                                  players, race_id))
    /\ UNCHANGED <<now, slots, players, pending, adminStarts, requests, jobs, resets>>

\* the store and the player records a handler leaves
SetOutcome(fin) == SetStore(fin.st) /\ players' = fin.players

\* run_race_job returns, dies of the exception, runs through an empty tick
\* stream, or sleeps in the tick loop
Suspend(out, origin) ==
    IF ~out.ran \/ out.raised
    THEN SetStore(out.st) /\ UNCHANGED <<players, jobs>>
    ELSE IF out.results = <<>>
    THEN /\ SetOutcome(FinishRace(out.st, players, slots, now, out.race, out.results))
         /\ UNCHANGED jobs
    ELSE /\ SetStore(out.st)
         /\ jobs' = Append(jobs, [race |-> out.race, results |-> out.results,
                                  tick |-> 1, origin |-> origin])
         /\ UNCHANGED players

\* one invocation of run_race_job, up to its first suspension
Invoke(st, race_id, origin) ==
    /\ Suspend(RunToSimulate(st, players, race_id), origin)
    /\ ws' = broadcast(ws, race_id, RunMessages(RunToSimulate(st, players, race_id), race_id))

FireRun(race_id) ==
    /\ race_id \in Due(runTrig, now)
    /\ UNCHANGED <<walk, profile, stream>>
    /\ Invoke([Store EXCEPT !.runTrig = remove_job(@, race_id)], race_id, "trigger")
    /\ UNCHANGED <<now, slots, pending, adminStarts, requests, resets>>

AdminStart(race_id) ==
    /\ AdminStartOk(Store, race_id)
    /\ UNCHANGED <<walk, profile, stream, ws>>
    /\ adminStarts < MaxAdminStarts
    /\ adminStarts' = adminStarts + 1
    /\ pending' = Append(pending, race_id)
    /\ UNCHANGED <<now, slots, races, writes, players, lockTrig, runTrig, requests, jobs, resets>>

StartPending ==
    /\ pending # <<>>
    /\ UNCHANGED <<walk, profile, stream>>
    /\ pending' = Tail(pending)
    /\ Invoke(Store, Head(pending), "admin")
    /\ UNCHANGED <<now, slots, adminStarts, requests, resets>>

\* the tick loop wakes from its sleep and broadcasts the next snapshot
JobTick(i) ==
    /\ i \in 1..Len(jobs)
    /\ UNCHANGED <<walk, profile, stream>>
    /\ jobs[i].tick < MaxTicks
    /\ jobs' = [jobs EXCEPT ![i].tick = @ + 1]
    /\ ws' = broadcast(ws, jobs[i].race.id,
                       <<Message(jobs[i].race.id, "tick", jobs[i].tick + 1)>>)
    /\ UNCHANGED <<now, slots, races, writes, players, lockTrig, runTrig, pending, adminStarts,
                   requests, resets>>

\* the tick loop wakes from its sleep and the stream is exhausted
JobFinish(i) ==
    /\ i \in 1..Len(jobs)
    /\ UNCHANGED <<walk, profile, stream>>
    /\ SetOutcome(FinishRace(Store, players, slots, now, jobs[i].race, jobs[i].results))
    /\ ws' = broadcast(ws, jobs[i].race.id, <<Message(jobs[i].race.id, "finished", 0)>>)
    /\ jobs' = RemoveAt(jobs, i)
    /\ UNCHANGED <<now, slots, pending, adminStarts, requests, resets>>

\* a request counts as accepted when it changed a player record
Served(pl) == requests' = requests + (IF pl = players THEN 0 ELSE 1)

Respond(out) == SetOutcome(out) /\ Served(out.players)

EnterRace(player_id, race_id) ==
    /\ requests < MaxRequests
    /\ UNCHANGED <<walk, profile, stream, ws>>
    /\ race_id \in DOMAIN races
    /\ Respond(enter_race(Store, players, player_id, race_id))
    /\ UNCHANGED <<now, slots, pending, adminStarts, jobs, resets>>

WithdrawRace(player_id, race_id) ==
    /\ requests < MaxRequests
    /\ UNCHANGED <<walk, profile, stream, ws>>
    /\ race_id \in DOMAIN races
    /\ Respond(withdraw_race(Store, players, player_id, race_id))
    /\ UNCHANGED <<now, slots, pending, adminStarts, jobs, resets>>

RepairSlot(player_id, slot) ==
    /\ requests < MaxRequests
    /\ UNCHANGED <<walk, profile, stream, ws>>
    /\ players' = repair_slot(players, player_id, slot)
    /\ Served(players')
    /\ UNCHANGED <<now, slots, races, writes, lockTrig, runTrig, pending, adminStarts, jobs,
                   resets>>

SwapSlot(player_id, slot, tier) ==
    /\ requests < MaxRequests
    /\ UNCHANGED <<walk, profile, stream, ws>>
    /\ players' = swap_slot(players, player_id, slot, tier)
    /\ Served(players')
    /\ UNCHANGED <<now, slots, races, writes, lockTrig, runTrig, pending, adminStarts, jobs,
                   resets>>

ResetSchedule ==
    /\ Len(resets) < MaxResets
    /\ UNCHANGED <<walk, profile, stream, ws>>
    /\ SetStore(reset_schedule(Store, slots, now))
    /\ resets' = Append(resets, now)
    /\ UNCHANGED <<now, slots, players, pending, adminStarts, requests, jobs>>

Next ==
    \/ Tick
    \/ \E race_id \in DOMAIN lockTrig : FireLock(race_id)
    \/ \E race_id \in DOMAIN runTrig : FireRun(race_id)
    \/ \E race_id \in DOMAIN races : AdminStart(race_id)
    \/ StartPending
    \/ \E i \in 1..Len(jobs) : JobTick(i)
    \/ \E i \in 1..Len(jobs) : JobFinish(i)
    \/ \E player_id \in PlayerIds, race_id \in DOMAIN races : EnterRace(player_id, race_id)
    \/ \E player_id \in PlayerIds, race_id \in DOMAIN races : WithdrawRace(player_id, race_id)
    \/ \E player_id \in PlayerIds, slot \in RequestSlots : RepairSlot(player_id, slot)
    \/ \E player_id \in PlayerIds, slot \in RequestSlots, tier \in RequestTiers :
          SwapSlot(player_id, slot, tier)

\* the scheduler and the admin operations, without the player requests
NextReset ==
    \/ Tick
    \/ \E race_id \in DOMAIN lockTrig : FireLock(race_id)
    \/ \E race_id \in DOMAIN runTrig : FireRun(race_id)
    \/ \E race_id \in DOMAIN races : AdminStart(race_id)
    \/ StartPending
    \/ \E i \in 1..Len(jobs) : JobTick(i)
    \/ \E i \in 1..Len(jobs) : JobFinish(i)
    \/ ResetSchedule

\* the race lifecycle under a valid timetable
Spec == Init /\ [][Next]_vars

\* the race lifecycle under any timetable content
SpecAnyTable == InitAnyTable /\ [][Next]_vars

\* the race lifecycle with the administrative reset
SpecReset == Init /\ [][NextReset]_vars

(***************************************************************************)
(* main.py: ws_race.  A handler suspends in its WebSocket sends and in     *)
(* q.get; between load_race and the test of race.status lies the send of   *)
(* race_init.  ws.client[c] is the handler of client c: where it stands,   *)
(* the status of the race record it loaded, and what it has sent to its    *)
(* client after race_init.  The keepalive pings are left out.              *)
(***************************************************************************)
WsClients == 1..MaxClients

\* the race has not started running: its record is open or locked and no
\* run_race_job of it is streaming
BeforeRunning(race_id) ==
    /\ race_id \in DOMAIN races
    /\ races[race_id].status \in {"open", "locked"}
    /\ \A i \in 1..Len(jobs) : jobs[i].race.id # race_id

\* accept, load_race, and the send of race_init begun
WsConnect(c, race_id) ==
    /\ c \notin DOMAIN ws.client
    /\ race_id \in DOMAIN races
    /\ ws' = [ws EXCEPT !.client =
                 Put(@, c, [pc |-> "race_init", race_id |-> race_id,
                            status |-> races[race_id].status,
                            early |-> FALSE, sent |-> <<>>])]
    /\ UNCHANGED <<now, slots, races, writes, players, lockTrig, runTrig, pending,
                   adminStarts, requests, jobs, resets, walk, profile, stream>>

\* race_init is sent: the stored results go out if the loaded record was
\* finished, otherwise the handler subscribes
WsResume(c) ==
    /\ c \in DOMAIN ws.client
    /\ ws.client[c].pc = "race_init"
    /\ ws' = IF ws.client[c].status = "finished"
             THEN [ws EXCEPT !.client[c].pc = "closed",
                             !.client[c].sent =
                                 <<Message(ws.client[c].race_id, "finished", 0)>>]
             ELSE [subscribe(ws, ws.client[c].race_id, c) EXCEPT
                      !.client[c].pc = "subscribed",
                      !.client[c].early = BeforeRunning(ws.client[c].race_id)]
    /\ UNCHANGED <<now, slots, races, writes, players, lockTrig, runTrig, pending,
                   adminStarts, requests, jobs, resets, walk, profile, stream>>

\* q.get returns a message and it is sent on; finished ends the handler
WsForward(c) ==
    /\ c \in DOMAIN ws.client
    /\ ws.client[c].pc = "subscribed"
    /\ ws.q[c] # <<>>
    /\ ws' = IF Head(ws.q[c]).type = "finished"
             THEN [unsubscribe(ws, ws.client[c].race_id, c) EXCEPT
                      !.q[c] = Tail(@),
                      !.client[c].sent = Append(@, Head(ws.q[c])),
                      !.client[c].pc = "closed"]
             ELSE [ws EXCEPT !.q[c] = Tail(@),
                             !.client[c].sent = Append(@, Head(ws.q[c]))]
    /\ UNCHANGED <<now, slots, races, writes, players, lockTrig, runTrig, pending,
                   adminStarts, requests, jobs, resets, walk, profile, stream>>

NextWs ==
    \/ Tick
    \/ \E race_id \in DOMAIN lockTrig : FireLock(race_id)
    \/ \E race_id \in DOMAIN runTrig : FireRun(race_id)
    \/ \E race_id \in DOMAIN races : AdminStart(race_id)
    \/ StartPending
    \/ \E i \in 1..Len(jobs) : JobTick(i)
    \/ \E i \in 1..Len(jobs) : JobFinish(i)
    \/ \E c \in WsClients, race_id \in DOMAIN races : WsConnect(c, race_id)
    \/ \E c \in WsClients : WsResume(c)
    \/ \E c \in WsClients : WsForward(c)

\* the scheduler, the admin start and the WebSocket clients
SpecWs == Init /\ [][NextWs]_vars

\* the same with the administrative reset
SpecWsReset == Init /\ [][NextWs \/ ResetSchedule]_vars

(***************************************************************************)
(* simulate_race called directly on a race drawn from bounded sets.  jobs  *)
(* holds the calls made so far: the race given and the list returned.      *)
(***************************************************************************)
SimIds == {<<"uuid", 1>>, <<"uuid", 2>>, <<BOT_PLAYER_ID_PREFIX, 1>>}

\* a factory car, a car of the top tier throughout, a car with three slots
\* worn below the DNF threshold, a car worn below the readiness penalty
\* threshold everywhere, and no locked car
SimCars ==
    {CarSlots,
     [s \in SlotSet |-> SlotPart("performance", 1000)],
     [s \in SlotSet |-> SlotPart("standard", IF s \in {"engine", "tires", "suspension"}
                                             THEN 150 ELSE 1000)],
     [s \in SlotSet |-> SlotPart("standard", 300)],
     NoCar}

SimRaceIds == {_race_id(1, 1), _race_id(2, 1)}

SimEventTypes == {"sprint", "time_trial"}

SimRace(race_id, event_type, ids, cars) ==
    [Race(race_id, SlotDt(race_id), event_type, 25, generate_track(race_id, 0)) EXCEPT
        !.status = "locked",
        !.entries = [i \in 1..Len(ids) |-> RaceEntry(ids[i], cars[i])]]

InitSim ==
    /\ now = 0
    /\ slots = ValidTable
    /\ players = InitPlayers
    /\ pending = <<>>
    /\ adminStarts = 0
    /\ requests = 0
    /\ jobs = <<>>
    /\ resets = <<>>
    /\ walk = NoWalk
    /\ ws = NoWs
    /\ profile = NoProfile
    /\ stream = NoStream
    /\ writes = EmptyDict
    /\ lockTrig = EmptyDict
    /\ runTrig = EmptyDict
    /\ \E race_id \in SimRaceIds, event_type \in SimEventTypes, n \in 0..MaxSimEntries :
           \E ids \in [1..n -> SimIds], cars \in [1..n -> SimCars] :
               /\ \A i, j \in 1..n : ids[i] = ids[j] => i = j
               /\ races = Put(EmptyDict, race_id, SimRace(race_id, event_type, ids, cars))

\* one call of simulate_race on the race, with the outcomes of its random.choice calls
SimulateCall(race_id, choices) ==
    /\ Len(jobs) < MaxCalls
    /\ UNCHANGED <<walk, profile, stream, ws>>
    /\ jobs' = Append(jobs, [race |-> races[race_id],
                             results |-> WithLuckTags(simulate_race(races[race_id]), choices),
                             tick |-> 1, origin |-> "call"])
    /\ UNCHANGED <<ws, now, slots, races, writes, players, lockTrig, runTrig, pending,
                   adminStarts, requests, resets>>

NextSim ==
    \E race_id \in DOMAIN races, choices \in [1..MaxSimEntries -> 1..LuckTagChoices] :
        SimulateCall(race_id, choices)

\* simulate_race as a function of the race
SpecSim == InitSim /\ [][NextSim]_vars

(***************************************************************************)
(* simulation/engine.py: apply_wear as a function of the car and the event *)
(* type.  players holds the car the caller passes; jobs holds the last     *)
(* call: the argument as it is after the call, and the car returned.       *)
(***************************************************************************)
\* the factory car and a car of mixed tiers, part of it close to worn out
WearCars ==
    {CarSlots,
     [s \in SlotSet |->
         CASE s = "engine" -> SlotPart("performance", 1000)
           [] s = "tires"  -> SlotPart("upgraded", 405)
           [] s = "fuel"   -> SlotPart("upgraded", 12)
           [] OTHER        -> SlotPart("standard", 300)]}

\* known event types and one that is in neither table
WearEventTypes == {"sprint", "endurance", "altitude", "rally"}

InitWear ==
    /\ now = 0
    /\ slots = ValidTable
    /\ races = EmptyDict
    /\ pending = <<>>
    /\ adminStarts = 0
    /\ requests = 0
    /\ jobs = <<>>
    /\ resets = <<>>
    /\ walk = NoWalk
    /\ ws = NoWs
    /\ profile = NoProfile
    /\ stream = NoStream
    /\ writes = EmptyDict
    /\ lockTrig = EmptyDict
    /\ runTrig = EmptyDict
    /\ \E car \in WearCars :
           players = Put(EmptyDict, <<"uuid", 1>>, Player(InitCredits, 0, 0, car))

\* new_car = apply_wear(player.car, event_type), then the caller's model_copy
WearCall(player_id, event_type) ==
    /\ jobs' = <<[car |-> players[player_id].car, event_type |-> event_type,
                  new_car |-> apply_wear(players[player_id].car, event_type),
                  origin |-> "wear"]>>
    /\ players' = [players EXCEPT
                      ![player_id].car = apply_wear(players[player_id].car, event_type)]
    /\ UNCHANGED <<ws, now, slots, races, writes, lockTrig, runTrig, pending,
                   adminStarts, requests, resets, walk, profile, stream>>

NextWear ==
    \E player_id \in DOMAIN players, event_type \in WearEventTypes :
        WearCall(player_id, event_type)

SpecWear == InitWear /\ [][NextWear]_vars

(***************************************************************************)
(* track_gen.py: generate_track(n) followed step by step.  A cell is       *)
(* <<x, y>>; rng.choice(candidates) is a choice among the candidates.      *)
(***************************************************************************)
TrackSizes == {4, 5}

Start == <<0, 0>>

Deltas == {<<1, 0>>, <<-1, 0>>, <<0, 1>>, <<0, -1>>}

\* the order in which _try_walk tries the directions
DeltaOrder == << <<1, 0>>, <<-1, 0>>, <<0, 1>>, <<0, -1>> >>

Neighbours(cell) == {<<cell[1] + d[1], cell[2] + d[2]>> : d \in Deltas}

Cells(path) == {path[i] : i \in 1..Len(path)}

max_steps(n) == n * n

min_steps(n) == Max2(TRACK_MIN_STEPS, n * 2)

\* the loop closes: enough cells and the start next to the current cell
CanClose(n, path) ==
    /\ Len(path) >= min_steps(n)
    /\ Start \in Neighbours(path[Len(path)])

\* the neighbours of the current cell with any cell of the grid allowed again
Candidates_revisit(n, path) ==
    {c \in Neighbours(path[Len(path)]) :
        c[1] \in 0..(n - 1) /\ c[2] \in 0..(n - 1)}

\* the unvisited neighbours of the current cell inside the grid
Candidates(n, path) ==
    {c \in Neighbours(path[Len(path)]) :
        c[1] \in 0..(n - 1) /\ c[2] \in 0..(n - 1) /\ c \notin Cells(path)}

\* the candidates as the list _try_walk hands to rng.choice
CandidateList(n, path) ==
    LET Free(d) == <<path[Len(path)][1] + d[1], path[Len(path)][2] + d[2]>>
                       \in Candidates(n, path)
        free == SelectSeq(DeltaOrder, Free)
    IN  [i \in 1..Len(free) |->
            <<path[Len(path)][1] + free[i][1], path[Len(path)][2] + free[i][2]>>]

(***************************************************************************)
(* random.Random(seed): a generator whose state, and so every later draw,  *)
(* is fixed by the seed.  The Mersenne twister is stood in for by a linear *)
(* congruential generator.                                                 *)
(***************************************************************************)
Random(seed) == seed % 65537

NextRng(rng) == (75 * rng + 74) % 65537

\* rng.choice(candidates), after the generator advanced
Choice(candidates, rng) == candidates[(rng % Len(candidates)) + 1]

\* the generator a call works with, carried on from the call before
CallRng_carried_on(seed, rng) == rng

\* rng = random.Random(seed): the generator of a call starts from its seed,
\* whatever state the generator of the call before was left in
CallRng(seed, rng) == Random(seed)

\* the four edges of a rectangle from lo to hi, clockwise from its top-left cell
OvalEdges(lo, hi) ==
    [i \in 1..(hi - lo + 1) |-> <<lo + i - 1, lo>>]
      \o [i \in 1..(hi - lo) |-> <<hi, lo + i>>]
      \o [i \in 1..(hi - lo) |-> <<hi - i, hi>>]
      \o [i \in 1..(hi - lo - 1) |-> <<lo, hi - i>>]

\* the oval along the border of the grid
_oval_fallback_border(n) == OvalEdges(0, n - 1)

\* path[:-1] of the oval _oval_fallback builds
_oval_fallback(n) == OvalEdges(1, n - 2)

\* _tile_type_orientation looks a delta up in _COMPASS unless the cell is a straight
BuildRaises(path_order) ==
    \E i \in 1..Len(path_order) :
        LET prev == path_order[((i - 2) % Len(path_order)) + 1]
            nxt == path_order[(i % Len(path_order)) + 1]
            came_from == <<path_order[i][1] - prev[1], path_order[i][2] - prev[2]>>
            going_to == <<nxt[1] - path_order[i][1], nxt[2] - path_order[i][2]>>
        IN  came_from # going_to /\ (came_from \notin Deltas \/ going_to \notin Deltas)

_COMPASS == [d \in Deltas |->
                CASE d = <<1, 0>> -> "E" [] d = <<-1, 0>> -> "W"
                  [] d = <<0, 1>> -> "S" [] d = <<0, -1>> -> "N"]

\* the curve table without its last pair
_CURVE_DIRS_without_SW(key) ==
    CASE key = {"N", "E"} -> "NE" [] key = {"N", "W"} -> "NW"
      [] key = {"S", "E"} -> "SE" [] OTHER -> ""

_CURVE_DIRS(key) ==
    CASE key = {"N", "E"} -> "NE" [] key = {"N", "W"} -> "NW"
      [] key = {"S", "E"} -> "SE" [] key = {"S", "W"} -> "SW"
      [] OTHER -> ""

\* <<tile_type, orientation>> of a cell entered by one delta and left by another
_tile_type_orientation(came_from, going_to) ==
    IF came_from = going_to
    THEN <<"straight", IF came_from[1] # 0 THEN "horizontal" ELSE "vertical">>
    ELSE IF _CURVE_DIRS({_COMPASS[came_from], _COMPASS[going_to]}) # ""
         THEN <<"curve", _CURVE_DIRS({_COMPASS[came_from], _COMPASS[going_to]})>>
         ELSE <<"straight", "horizontal">>

TileData(cell, type_orientation) ==
    [x |-> cell[1], y |-> cell[2], type |-> type_orientation[1],
     orientation |-> type_orientation[2]]

\* the tile of the cell at index i of the closed path
TileAt(path_order, i, prev, nxt) ==
    TileData(path_order[i],
             _tile_type_orientation(
                 <<path_order[i][1] - prev[1], path_order[i][2] - prev[2]>>,
                 <<nxt[1] - path_order[i][1], nxt[2] - path_order[i][2]>>))

_build_track_data(path_order, n) ==
    [grid_width |-> n, grid_height |-> n,
     tiles |-> [i \in 1..Len(path_order) |->
                   TileAt(path_order, i,
                          path_order[((i + Len(path_order) - 2) % Len(path_order)) + 1],
                          path_order[(i % Len(path_order)) + 1])],
     path_order |-> path_order]

\* generate_track returns the track, or dies of the KeyError
Return(how, path_order) ==
    walk' = [walk EXCEPT
                !.returned = IF BuildRaises(path_order) THEN "raised" ELSE how,
                !.track = IF BuildRaises(path_order) THEN @
                          ELSE _build_track_data(path_order, walk.n)]

Walking ==
    /\ walk.returned = "no"
    /\ walk.attempt <= TRACK_MAX_RETRIES
    /\ UNCHANGED <<ws, now, slots, races, writes, players, lockTrig, runTrig, pending,
                   adminStarts, requests, jobs, resets, profile, stream>>

\* _try_walk closes the loop and generate_track returns the track
WalkClose ==
    /\ Walking
    /\ walk.steps < max_steps(walk.n)
    /\ CanClose(walk.n, walk.path)
    /\ Return("walk", walk.path)

\* one iteration of the loop of _try_walk that moves to a candidate
WalkStep(nxt) ==
    /\ Walking
    /\ walk.steps < max_steps(walk.n)
    /\ ~CanClose(walk.n, walk.path)
    /\ nxt \in Candidates(walk.n, walk.path)
    /\ walk.seeded => nxt = Choice(CandidateList(walk.n, walk.path), NextRng(walk.rng))
    /\ walk' = [walk EXCEPT !.path = Append(@, nxt), !.steps = @ + 1,
                            !.rng = IF walk.seeded THEN NextRng(@) ELSE @]

\* _try_walk returns None, stuck or out of iterations; the next attempt starts
WalkFail ==
    /\ Walking
    /\ \/ walk.steps = max_steps(walk.n)
       \/ ~CanClose(walk.n, walk.path) /\ Candidates(walk.n, walk.path) = {}
    /\ walk' = [walk EXCEPT !.attempt = @ + 1, !.path = <<Start>>, !.steps = 0]

\* every attempt failed: generate_track returns the oval
OvalFallback ==
    /\ walk.returned = "no"
    /\ walk.attempt > TRACK_MAX_RETRIES
    /\ Return("oval", _oval_fallback(walk.n))
    /\ UNCHANGED <<ws, now, slots, races, writes, players, lockTrig, runTrig, pending,
                   adminStarts, requests, jobs, resets, profile, stream>>

InitTrack ==
    /\ now = 0
    /\ slots = ValidTable
    /\ players = InitPlayers
    /\ pending = <<>>
    /\ adminStarts = 0
    /\ requests = 0
    /\ jobs = <<>>
    /\ resets = <<>>
    /\ InitStore(EmptyStore)
    /\ profile = NoProfile
    /\ stream = NoStream
    /\ ws = NoWs
    /\ \E n \in TrackSizes :
           walk = [NoWalk EXCEPT !.n = n, !.attempt = 1, !.path = <<Start>>,
                                 !.returned = "no"]

NextTrack ==
    \/ WalkClose
    \/ \E nxt \in Neighbours(walk.path[Len(walk.path)]) : WalkStep(nxt)
    \/ WalkFail
    \/ OvalFallback

\* generate_track for every outcome of its random choices
SpecTrack == InitTrack /\ [][NextTrack]_vars

\* the grid sizes and seeds generate_track(n, seed) is called with
SeededSizes == {6, 12}

Seeds == {6, 11, 17, 42}

InitSeeded ==
    /\ now = 0
    /\ slots = ValidTable
    /\ players = InitPlayers
    /\ pending = <<>>
    /\ adminStarts = 0
    /\ requests = 0
    /\ jobs = <<>>
    /\ resets = <<>>
    /\ InitStore(EmptyStore)
    /\ profile = NoProfile
    /\ stream = NoStream
    /\ ws = NoWs
    /\ \E n \in SeededSizes, seed \in Seeds :
           walk = [NoWalk EXCEPT !.n = n, !.attempt = 1, !.path = <<Start>>,
                                 !.returned = "no", !.seeded = TRUE, !.seed = seed,
                                 !.rng = Random(seed)]

\* generate_track is called again with the same n and seed
CallAgain ==
    /\ walk.returned \in {"walk", "oval"}
    /\ Len(walk.earlier) < MaxCalls - 1
    /\ walk' = [walk EXCEPT !.attempt = 1, !.path = <<Start>>, !.steps = 0,
                            !.returned = "no", !.track = NoWalk.track,
                            !.rng = CallRng(walk.seed, walk.rng),
                            !.earlier = Append(@, walk.track)]
    /\ UNCHANGED <<ws, now, slots, races, writes, players, lockTrig, runTrig, pending,
                   adminStarts, requests, jobs, resets, profile, stream>>

NextSeeded ==
    \/ WalkClose
    \/ \E nxt \in Neighbours(walk.path[Len(walk.path)]) : WalkStep(nxt)
    \/ WalkFail
    \/ OvalFallback
    \/ CallAgain

\* generate_track(n, seed) called repeatedly with a seed that is not None
SpecSeeded == InitSeeded /\ [][NextSeeded]_vars

\* generate_track runs on: no step of it waits for anything
SpecTrackLive == SpecTrack /\ WF_vars(NextTrack)

(***************************************************************************)
(* simulation/engine.py: build_speed_profile.  A speed is kept as its      *)
(* square, in (hundredths of a foot per second) squared: the code only     *)
(* ever stores a raw target or sqrt(v * v + 2 * a * TILE_FEET), whose      *)
(* square is known exactly.                                                *)
(***************************************************************************)
RECURSIVE IsqrtIn(_, _, _)
IsqrtIn(x, lo, hi) ==
    IF lo >= hi THEN lo
    ELSE IF ((lo + hi + 1) \div 2) * ((lo + hi + 1) \div 2) <= x
         THEN IsqrtIn(x, (lo + hi + 1) \div 2, hi)
         ELSE IsqrtIn(x, lo, ((lo + hi + 1) \div 2) - 1)

\* math.sqrt, rounded down to the unit
Isqrt(x) == IsqrtIn(x, 0, 20000)

\* 2.0 * BRAKE_FPS2 * TILE_FEET and 2.0 * ACCEL_FPS2 * TILE_FEET
BrakeGain == 2 * BRAKE_FPS2 * TILE_FEET * 10

AccelGain == 2 * ACCEL_FPS2 * TILE_FEET * 10

\* tile_type_by_pos.get((pos[0], pos[1]), "straight"): the last tile at the cell wins
TileTypeAt(track, pos) ==
    IF \A k \in 1..Len(track.tiles) : <<track.tiles[k].x, track.tiles[k].y>> # pos
    THEN "straight"
    ELSE track.tiles[CHOOSE k \in 1..Len(track.tiles) :
                        /\ <<track.tiles[k].x, track.tiles[k].y>> = pos
                        /\ \A j \in (k + 1)..Len(track.tiles) :
                               <<track.tiles[j].x, track.tiles[j].y>> # pos].type

RawTarget(tt) ==
    IF tt = "chicane" THEN CHICANE_SPEED_FPS
    ELSE IF tt = "curve" THEN CORNER_SPEED_FPS
    ELSE TOP_SPEED_FPS

\* the squares of the raw targets along the path
Square(x) == x * x

RawTargets(track) ==
    [i \in 1..Len(track.path_order) |->
        Square(RawTarget(TileTypeAt(track, track.path_order[i])))]

\* speed > limit + 0.01, on the squares
Exceeds(speed2, limit2) == speed2 > limit2 + 2 * Isqrt(limit2) + 1

\* a constraint step that stores the limit whether or not the speed is above it
Constrain_always(speed2, i, j, gain) == [speed2 EXCEPT ![i] = speed2[j] + gain]

\* if speed[i] > limit + 0.01: speed[i] = limit, with limit from tile j
Constrain(speed2, i, j, gain) ==
    IF Exceeds(speed2[i], speed2[j] + gain)
    THEN [speed2 EXCEPT ![i] = speed2[j] + gain]
    ELSE speed2

NextTile(i, n) == (i % n) + 1

PrevTile(i, n) == ((i + n - 2) % n) + 1

RECURSIVE BackwardPass(_, _)
BackwardPass(speed2, i) ==
    IF i > Len(speed2) THEN speed2
    ELSE BackwardPass(Constrain(speed2, i, NextTile(i, Len(speed2)), BrakeGain), i + 1)

RECURSIVE ForwardPass(_, _)
ForwardPass(speed2, i) ==
    IF i > Len(speed2) THEN speed2
    ELSE ForwardPass(Constrain(speed2, i, PrevTile(i, Len(speed2)), AccelGain), i + 1)

\* sweep k turned speed2 into after: stop when nothing changed or at the cap
RECURSIVE SweepFrom(_, _, _)
SweepFrom(speed2, after, k) ==
    IF after = speed2 \/ k >= SWEEP_CAP THEN after
    ELSE SweepFrom(after, ForwardPass(BackwardPass(after, 1), 1), k + 1)

\* the squares of the speeds build_speed_profile returns
build_speed_profile(track) ==
    SweepFrom(RawTargets(track), ForwardPass(BackwardPass(RawTargets(track), 1), 1), 1)

\* the grid sizes whose oval tracks the profile is built for
ProfileSizes == {4, 5, 12, 40}

Oval(n) == _build_track_data(_oval_fallback(n), n)

\* ovals, an oval with two chicanes, an oval that lost its tiles, an empty track
ProfileTracks ==
    {Oval(n) : n \in ProfileSizes}
      \cup {[Oval(12) EXCEPT !.tiles[3].type = "chicane", !.tiles[20].type = "chicane"],
            [Oval(5) EXCEPT !.tiles = <<>>],
            _build_track_data(<<>>, 4)}

InitProfile ==
    /\ now = 0
    /\ slots = ValidTable
    /\ players = InitPlayers
    /\ pending = <<>>
    /\ adminStarts = 0
    /\ requests = 0
    /\ jobs = <<>>
    /\ resets = <<>>
    /\ InitStore(EmptyStore)
    /\ walk = NoWalk
    /\ ws = NoWs
    /\ stream = NoStream
    /\ \E track \in ProfileTracks :
           profile = [track |-> track, speed2 |-> RawTargets(track), sweep |-> 1,
                      phase |-> "backward", i |-> 1, changed |-> FALSE,
                      done |-> track.path_order = <<>>]

Sweeping(phase) ==
    /\ ~profile.done
    /\ profile.phase = phase
    /\ UNCHANGED <<ws, now, slots, races, writes, players, lockTrig, runTrig, pending,
                   adminStarts, requests, jobs, resets, walk, stream>>

\* one iteration of the backward pass
BackwardStep(after) ==
    /\ Sweeping("backward")
    /\ profile' = [profile EXCEPT
                       !.speed2 = after,
                       !.changed = @ \/ after # profile.speed2,
                       !.i = IF @ = Len(after) THEN 1 ELSE @ + 1,
                       !.phase = IF profile.i = Len(after) THEN "forward" ELSE @]

\* one iteration of the forward pass; after the last one the sweep ends
ForwardStep(after, changed) ==
    /\ Sweeping("forward")
    /\ profile' = [profile EXCEPT
                       !.speed2 = after,
                       !.i = IF @ = Len(after) THEN 1 ELSE @ + 1,
                       !.phase = IF profile.i = Len(after) THEN "backward" ELSE @,
                       !.changed = IF profile.i = Len(after) THEN FALSE ELSE changed,
                       !.sweep = IF profile.i = Len(after) /\ changed /\ @ < SWEEP_CAP
                                 THEN @ + 1 ELSE @,
                       !.done = profile.i = Len(after) /\ (~changed \/ profile.sweep >= SWEEP_CAP)]

NextProfile ==
    \/ BackwardStep(Constrain(profile.speed2, profile.i,
                              NextTile(profile.i, Len(profile.speed2)), BrakeGain))
    \/ ForwardStep(Constrain(profile.speed2, profile.i,
                             PrevTile(profile.i, Len(profile.speed2)), AccelGain),
                   profile.changed
                     \/ Constrain(profile.speed2, profile.i,
                                  PrevTile(profile.i, Len(profile.speed2)), AccelGain)
                          # profile.speed2)

\* build_speed_profile followed through its sweeps
SpecProfile == InitProfile /\ [][NextProfile]_vars

(***************************************************************************)
(* simulation/engine.py: generate_tick_stream.  Positions are in           *)
(* ten-thousandths of a foot, velocities in ten-thousandths of a foot per  *)
(* second, result scores in hundredths, factors, progress and stop         *)
(* fractions in ten-thousandths.  The cars are kept in the order of the    *)
(* results (the ids of a result list are distinct).                        *)
(***************************************************************************)
TileLen == TILE_FEET * 10000

\* ACCEL_FPS2 * dt and BRAKE_FPS2 * dt
AccelStep == RoundDiv(ACCEL_FPS2 * RACE_TICK_INTERVAL_MS, 100)

BrakeStep == RoundDiv(BRAKE_FPS2 * RACE_TICK_INTERVAL_MS, 100)

MaxOf(S) == CHOOSE m \in S : \A k \in S : m >= k

\* the speed profile, or the flat top speed without a track
StreamProfile(track) ==
    IF track # NoWalk.track /\ track.path_order # <<>>
    THEN [i \in 1..Len(track.path_order) |-> Isqrt(build_speed_profile(track)[i]) * 100]
    ELSE <<TOP_SPEED_FPS * 100>>

\* max(r.result_score for r in results) or 1.0
max_score(results) ==
    IF MaxOf({results[i].result_score : i \in 1..Len(results)}) = 0 THEN 100
    ELSE MaxOf({results[i].result_score : i \in 1..Len(results)})

\* max(0.3, r.result_score / max_score)
car_factor(result_score, top) == Max2(3000, (result_score * 10000) \div top)

\* the state generate_tick_stream sets up before its loop
StreamStart(results, lap_count, track, stop) ==
    [results |-> results, lap_count |-> lap_count,
     speeds |-> StreamProfile(track),
     total_distance |-> TileLen * Len(StreamProfile(track)) * lap_count,
     factor |-> [i \in 1..Len(results) |->
                    car_factor(results[i].result_score, max_score(results))],
     dnf_stop |-> stop,
     car |-> [i \in 1..Len(results) |->
                 [pos |-> 0, vel |-> 0, finished |-> 0, fired |-> FALSE]],
     leader_finished_tick |-> 0, tick_num |-> 0, all_done |-> FALSE,
     cars_data |-> <<>>, status |-> "running"]

\* profile[tile_idx] * car_factor[pid]
Target(speeds, pos, factor) ==
    ((speeds[(((pos % (TileLen * Len(speeds))) \div TileLen) % Len(speeds)) + 1] \div 100)
        * factor) \div 100

\* the velocity moves toward the target by at most one step of acceleration or braking
Approach(vel, target) ==
    IF vel < target THEN Min2(target, vel + AccelStep)
    ELSE IF vel > target THEN Max2(target, vel - BrakeStep)
    ELSE vel

Moved(c, vel) ==
    [c EXCEPT !.vel = vel, !.pos = @ + RoundDiv(vel * RACE_TICK_INTERVAL_MS, 1000)]

\* if progress >= 1.0: the car is put on the line and marked finished
Arrived(c, total_distance, tick) ==
    IF c.pos >= total_distance THEN [c EXCEPT !.pos = total_distance, !.finished = tick]
    ELSE c

\* a DNF car is at or beyond its stop point
Stopping(c, r, stop_dist) == r.dnf /\ c.pos >= stop_dist

\* a stopping car put back onto its stop point
StopAt_snapped(pos, stop_dist) == stop_dist

\* a stopping car keeps the position it has
StopAt(pos, stop_dist) == pos

\* the per-car state after one pass of the loop body
StepCar(c, r, s, i, tick) ==
    IF c.finished # 0 THEN c
    ELSE IF Stopping(c, r, s.dnf_stop * (s.total_distance \div 10000))
    THEN [c EXCEPT !.vel = 0, !.finished = tick, !.fired = TRUE,
                   !.pos = StopAt(@, s.dnf_stop * (s.total_distance \div 10000))]
    ELSE Arrived(Moved(c, Approach(c.vel, Target(s.speeds, c.pos, s.factor[i]))),
                 s.total_distance, tick)

\* round(x / total_distance, 4)
Progress(pos, total_distance) == RoundDiv(pos, total_distance \div 10000)

\* round(vel / MPH_TO_FPS, 0)
Mph(vel) == RoundDiv(vel * 15, 220000)

\* the entry of cars_data for a car that was c before the pass and is after now
CarData(c, after, r, s) ==
    IF c.finished # 0
    THEN [car_id |-> r.player_id,
          progress |-> Progress(Min2(c.pos, s.total_distance), s.total_distance),
          speed |-> Mph(c.vel), incident |-> IF r.dnf THEN "dnf" ELSE "none"]
    ELSE IF Stopping(c, r, s.dnf_stop * (s.total_distance \div 10000))
    THEN [car_id |-> r.player_id, progress |-> Progress(after.pos, s.total_distance),
          speed |-> 0, incident |-> IF c.fired THEN "dnf" ELSE "dnf_start"]
    ELSE [car_id |-> r.player_id,
          progress |-> Progress(Min2(after.pos, s.total_distance), s.total_distance),
          speed |-> Mph(after.vel), incident |-> "none"]

\* the car takes the physics step in this pass
Racing(c, r, s) ==
    c.finished = 0 /\ ~Stopping(c, r, s.dnf_stop * (s.total_distance \div 10000))

\* the stream state after the pass that took the cars to after
AfterTick(s, after) ==
    [s EXCEPT
        !.tick_num = @ + 1,
        !.car = after,
        !.all_done = \A i \in 1..Len(s.results) : ~Racing(s.car[i], s.results[i], s),
        !.leader_finished_tick =
            IF @ = 0 /\ \E i \in 1..Len(s.results) :
                            /\ Racing(s.car[i], s.results[i], s)
                            /\ after[i].finished # 0
            THEN s.tick_num + 1 ELSE @,
        !.cars_data = [i \in 1..Len(s.results) |->
                          CarData(s.car[i], after[i], s.results[i], s)]]

\* the generator returns only without results or when the loop breaks
StreamOver_no_ceiling(s) ==
    \/ s.results = <<>>
    \/ s.tick_num > 0 /\ s.all_done
    \/ /\ s.leader_finished_tick # 0
       /\ s.tick_num - s.leader_finished_tick >= TRAILING_GRACE_TICKS

\* the generator returns without the trailing grace test
StreamOver_no_grace(s) ==
    \/ s.results = <<>>
    \/ s.tick_num > 0 /\ s.all_done
    \/ s.tick_num >= MAX_TICKS

\* the generator returns: no results, the loop broke, or the ceiling was hit
StreamOver(s) ==
    \/ s.results = <<>>
    \/ s.tick_num > 0 /\ s.all_done
    \/ /\ s.leader_finished_tick # 0
       /\ s.tick_num - s.leader_finished_tick >= TRAILING_GRACE_TICKS
    \/ s.tick_num >= MAX_TICKS

\* result lists: a leader with a trailing car, two cars 0.02 apart, a leader
\* with a DNF car, a DNF car alone, a car without a score alone, no result
StreamResults ==
    { << [player_id |-> <<"uuid", 1>>, result_score |-> 8000, dnf |-> FALSE],
         [player_id |-> <<"uuid", 2>>, result_score |-> 7998, dnf |-> FALSE] >>, << [player_id |-> <<"uuid", 1>>, result_score |-> 8000, dnf |-> FALSE],
         [player_id |-> <<"uuid", 2>>, result_score |-> 2000, dnf |-> FALSE] >>,
      << [player_id |-> <<"uuid", 1>>, result_score |-> 8000, dnf |-> FALSE],
         [player_id |-> <<"bot_", 0>>, result_score |-> 0, dnf |-> TRUE] >>,
      << [player_id |-> <<"uuid", 2>>, result_score |-> 0, dnf |-> TRUE] >>,
      << [player_id |-> <<"uuid", 1>>, result_score |-> 0, dnf |-> FALSE] >>,
      << >> }

\* lap counts, from a short race to one the ceiling cuts off
StreamLaps == {2, 9, 40, 70, 160}

StreamTracks == {NoWalk.track, Oval(5)}

\* outcomes of rng.uniform(0.3, 0.7)
StopFractions == {3000, 6999}

InitStream ==
    /\ now = 0
    /\ slots = ValidTable
    /\ players = InitPlayers
    /\ pending = <<>>
    /\ adminStarts = 0
    /\ requests = 0
    /\ jobs = <<>>
    /\ resets = <<>>
    /\ InitStore(EmptyStore)
    /\ walk = NoWalk
    /\ ws = NoWs
    /\ profile = NoProfile
    /\ \E results \in StreamResults, lap_count \in StreamLaps, track \in StreamTracks,
          stop \in StopFractions :
           stream = StreamStart(results, lap_count, track, stop)

\* one pass of the while loop, up to its yield
YieldTick ==
    /\ stream.status = "running"
    /\ ~StreamOver(stream)
    /\ stream' = AfterTick(stream,
                           [i \in 1..Len(stream.results) |->
                               StepCar(stream.car[i], stream.results[i], stream, i,
                                       stream.tick_num + 1)])
    /\ UNCHANGED <<ws, now, slots, races, writes, players, lockTrig, runTrig, pending,
                   adminStarts, requests, jobs, resets, walk, profile>>

\* the generator returns
StreamEnd ==
    /\ stream.status = "running"
    /\ StreamOver(stream)
    /\ stream' = [stream EXCEPT !.status = "exhausted"]
    /\ UNCHANGED <<ws, now, slots, races, writes, players, lockTrig, runTrig, pending,
                   adminStarts, requests, jobs, resets, walk, profile>>

NextStream == YieldTick \/ StreamEnd

\* generate_tick_stream consumed snapshot by snapshot
SpecStream == InitStream /\ [][NextStream]_vars

\* the consumer keeps asking for the next snapshot
SpecStreamLive == SpecStream /\ WF_vars(NextStream)

(***************************************************************************)
(* Race lifecycle properties.                                              *)
(***************************************************************************)
Rank(status) ==
    CASE status = "open" -> 1
      [] status = "locked" -> 2
      [] status = "running" -> 3
      [] status = "finished" -> 4

RealEntries(race) == SelectSeq(race.entries, LAMBDA e : ~IsBot(e.player_id))

\* C1: the statuses written for a race only move forward along
\* open -> locked -> running -> finished, the persisted status is the last one
\* written, and nothing is written after finished
StatusForward ==
    \A r \in DOMAIN races :
        /\ writes[r] # <<>>
        /\ races[r].status = writes[r][Len(writes[r])]
        /\ \A i \in 1..(Len(writes[r]) - 1) :
               /\ Rank(writes[r][i]) < Rank(writes[r][i + 1])
               /\ writes[r][i] # "finished"

\* a race with a real entrant went through all four statuses
StatusForwardReached ==
    \E r \in DOMAIN races :
        /\ writes[r] = <<"open", "locked", "running", "finished">>
        /\ RealEntries(races[r]) # <<>>

\* the step starts a run_race_job invocation for race r: its run trigger
\* fires, or the task admin_start_race created for it starts
InvokedOn(r) ==
    \/ r \in DOMAIN runTrig /\ r \notin DOMAIN runTrig'
    \/ pending # <<>> /\ Head(pending) = r /\ pending' = Tail(pending)

JobsOf(js, r) == {i \in 1..Len(js) : js[i].race.id = r}

\* C2: an invocation of run_race_job on a race that is open or locked sets it
\* running and is the one job streaming it; an invocation on a race in any
\* other status leaves every race and player record and the streaming jobs as
\* they are; no race is ever streamed by two jobs, and a finished race record
\* (its results) never changes
SimulatedOnce ==
    [][\A r \in DOMAIN races :
          /\ InvokedOn(r) =>
                IF races[r].status \in {"open", "locked"}
                THEN /\ races'[r].status = "running"
                     /\ jobs' = Append(jobs, jobs'[Len(jobs')])
                     /\ JobsOf(jobs', r) = {Len(jobs')}
                     /\ jobs'[Len(jobs')].results = simulate_race(races'[r])
                ELSE /\ races' = races
                     /\ players' = players
                     /\ jobs' = jobs
          /\ Cardinality(JobsOf(jobs', r)) <= 1
          /\ races[r].status = "finished" => races'[r] = races[r]]_vars

\* the run trigger of a race fired while the job admin_start_race started for
\* it was still streaming ticks
SimulatedOnceReached ==
    \E i \in 1..Len(jobs) :
        /\ jobs[i].origin = "admin"
        /\ races[jobs[i].race.id].status = "running"
        /\ jobs[i].race.id \notin DOMAIN runTrig
        /\ SlotDt(jobs[i].race.id) <= now

\* C3: a race whose persisted status is running is being streamed by a
\* run_race_job invocation that will carry it to finished
RunningIsStreamed ==
    \A r \in DOMAIN races : races[r].status = "running" => JobsOf(jobs, r) # {}

\* the timetable slots (day, index) whose time is strictly after t, looking
\* n days ahead
Upcoming(table, n, t) ==
    {c \in ((t \div DayLen)..(t \div DayLen + n)) \X (1..Len(table)) :
        _parse_slot_time(table[c[2]].time, c[1]) > t}

\* the ids of the n slots that come next strictly after t
NextSlots(table, n, t) ==
    {_race_id(c[1], table[c[2]].time) :
        c \in {c \in Upcoming(table, n, t) :
                  Cardinality({b \in Upcoming(table, n, t) :
                                  _parse_slot_time(table[b[2]].time, b[1])
                                      < _parse_slot_time(table[c[2]].time, c[1])}) < n}}

FutureRaces == {r \in DOMAIN races : SlotDt(r) > now}

\* C4: at every moment at least RACE_WINDOW races whose scheduled time is in
\* the future are persisted with an armed run trigger
WindowKept ==
    Cardinality({r \in FutureRaces : r \in DOMAIN runTrig}) >= RACE_WINDOW

\* the window as register_next_n_races leaves it, the lock trigger being
\* required of the slots in LockNeeded
WindowArmed(LockNeeded) ==
    /\ Cardinality(NextSlots(slots, RACE_WINDOW, now)) = RACE_WINDOW
    /\ FutureRaces = NextSlots(slots, RACE_WINDOW, now)
    /\ \A r \in NextSlots(slots, RACE_WINDOW, now) :
           /\ races[r].id = r
           /\ races[r].scheduled_time = SlotDt(r)
           /\ r \in DOMAIN runTrig /\ runTrig[r] = <<SlotDt(r)>>
           /\ r \in LockNeeded => r \in DOMAIN lockTrig /\ lockTrig[r] = <<SlotDt(r) - LOCK_LEAD>>

\* register_next_n_races returned in the step: at start-up it is the initial
\* state, later it is the end of a run_race_job invocation
Registered == Len(jobs') < Len(jobs)

\* C5 as stated: when register_next_n_races returns, each of the next
\* RACE_WINDOW slots strictly after now has its race persisted, a run trigger
\* at the slot time and a lock trigger one lock lead before it
RegisteredWindow ==
    /\ WindowArmed(FutureRaces)
    /\ [][Registered => WindowArmed(FutureRaces)']_vars

\* C5: when register_next_n_races returns, each of the next RACE_WINDOW slots
\* strictly after now has its race persisted and a run trigger at the slot
\* time, and those whose lock time is still ahead of now have a lock trigger
\* one lock lead before the slot time
RegisteredWindowAhead ==
    /\ WindowArmed({r \in FutureRaces : SlotDt(r) - LOCK_LEAD > now})
    /\ [][Registered =>
             WindowArmed({r \in FutureRaces : SlotDt(r) - LOCK_LEAD > now})']_vars

\* a top-up after a finished race crossed the day boundary and armed both
\* triggers of the race it created
RegisteredWindowReached ==
    \E r \in DOMAIN races, q \in DOMAIN races :
        /\ races[r].status = "finished"
        /\ q[1] > r[1]
        /\ races[q].track.made_at > 0
        /\ q \in DOMAIN lockTrig /\ q \in DOMAIN runTrig

\* C6: running register_next_n_races twice with no time elapsed gives what
\* running it once gives; it leaves every persisted race record as it is and
\* exactly one lock and one run trigger per registered race id
RegisterIdempotent ==
    /\ register_next_n_races(register_next_n_races(Store, slots, RACE_WINDOW, now),
                             slots, RACE_WINDOW, now)
         = register_next_n_races(Store, slots, RACE_WINDOW, now)
    /\ \A r \in DOMAIN races :
           register_next_n_races(Store, slots, RACE_WINDOW, now).races[r] = races[r]
    /\ \A r \in DOMAIN lockTrig : Len(lockTrig[r]) = 1
    /\ \A r \in DOMAIN runTrig : Len(runTrig[r]) = 1

\* a top-up ran over a race that was already persisted with a real entrant
\* and both of its triggers armed
RegisterIdempotentReached ==
    \E r \in DOMAIN races, q \in DOMAIN races :
        /\ races[r].status = "finished"
        /\ races[q].status = "open"
        /\ RealEntries(races[q]) # <<>>
        /\ races[q].track.made_at = 0
        /\ q \in DOMAIN lockTrig /\ q \in DOMAIN runTrig

\* C7: once reset_schedule has run, every persisted race belongs to the
\* window built at or after the reset: its slot time lies after the reset
ResetIsClean ==
    resets # <<>> => \A r \in DOMAIN races : SlotDt(r) > resets[Len(resets)]

\* C8: once a race is no longer open every enter and withdraw request on it
\* is rejected and changes nothing, its real entrants stay the same, and its
\* entries only grow by bot entries appended at the end
EntrantsFrozen ==
    /\ [](\A r \in DOMAIN races : races[r].status # "open" =>
             \A p \in PlayerIds :
                 /\ enter_race(Store, players, p, r) = [st |-> Store, players |-> players]
                 /\ withdraw_race(Store, players, p, r) = [st |-> Store, players |-> players])
    /\ [][\A r \in DOMAIN races : races[r].status # "open" =>
             /\ r \in DOMAIN races'
             /\ RealEntries(races'[r]) = RealEntries(races[r])
             /\ Len(races'[r].entries) >= Len(races[r].entries)
             /\ SubSeq(races'[r].entries, 1, Len(races[r].entries)) = races[r].entries]_vars

\* a locked race with a real entrant while another player who could pay the
\* fee is not entered
EntrantsFrozenReached ==
    \E r \in DOMAIN races, p \in PlayerIds :
        /\ races[r].status = "locked"
        /\ RealEntries(races[r]) # <<>>
        /\ ~Entered(races[r], p)
        /\ players[p].credits >= races[r].entry_fee

\* C9: the step that takes a race out of status open gives every entry the
\* car its player has at that moment; from then on no entry of the race ever
\* changes, whatever the player repairs or swaps; and the results persisted
\* at the finish are the simulation of the race record with those locked cars
LockedCarFixed ==
    [][\A r \in DOMAIN races :
          /\ races[r].status = "open" /\ races'[r].status # "open" =>
                \A i \in 1..Len(races[r].entries) :
                    races'[r].entries[i] =
                        [races[r].entries[i] EXCEPT
                            !.locked_car = players[races[r].entries[i].player_id].car]
          /\ races[r].status # "open" =>
                \A i \in 1..Len(races[r].entries) :
                    races'[r].entries[i] = races[r].entries[i]
          /\ races[r].status = "running" /\ races'[r].status = "finished" =>
                races'[r].results = simulate_race(races[r])]_vars

\* a race not yet finished holds a locked car that the player has since
\* repaired or upgraded
LockedCarFixedReached ==
    \E r \in DOMAIN races :
        /\ races[r].status \in {"locked", "running"}
        /\ \E i \in 1..Len(races[r].entries) :
               /\ races[r].entries[i].player_id \in DOMAIN players
               /\ \E s \in SlotSet :
                      players[races[r].entries[i].player_id].car[s].readiness
                          > races[r].entries[i].locked_car[s].readiness

\* C10: a race that is running or finished went through status locked and
\* every entrant with a player record has a locked car; the race record a
\* job simulated has a locked car for every entry and a result for each
LockBeforeSimulate ==
    /\ \A r \in DOMAIN races : races[r].status \in {"running", "finished"} =>
           /\ \E i \in 1..Len(writes[r]) : writes[r][i] = "locked"
           /\ \A i \in 1..Len(races[r].entries) :
                  races[r].entries[i].player_id \in DOMAIN players =>
                      races[r].entries[i].locked_car # NoCar
    /\ \A j \in 1..Len(jobs) :
           /\ \A i \in 1..Len(jobs[j].race.entries) : HasCar(jobs[j].race.entries[i])
           /\ Len(jobs[j].results) = Len(jobs[j].race.entries)

\* the run trigger started a race with a real entrant whose lock trigger was
\* never armed, the lock time having passed when the race was registered
LockBeforeSimulateReached ==
    \E j \in 1..Len(jobs) :
        /\ jobs[j].origin = "trigger"
        /\ SlotDt(jobs[j].race.id) - LOCK_LEAD <= jobs[j].race.track.made_at
        /\ RealEntries(jobs[j].race) # <<>>


\* the entries of a race are k real entries followed by the bots bot_0..bot_(m-1),
\* each with a locked car, and number max(k, BOT_GRID_TARGET) in all
GridFilled(race, k) ==
    /\ Len(race.entries) = Max2(k, BOT_GRID_TARGET)
    /\ \A i \in 1..k : ~IsBot(race.entries[i].player_id)
    /\ \A i \in (k + 1)..Len(race.entries) :
           /\ race.entries[i].player_id = <<BOT_PLAYER_ID_PREFIX, i - k - 1>>
           /\ HasCar(race.entries[i])

\* C11: the race record a run_race_job invocation simulated holds its k real
\* entries followed by exactly the bots bot_0.. that bring it to
\* max(k, BOT_GRID_TARGET) entries, each bot with a locked car, and the
\* persisted record of a running or finished race is filled the same way
BotsFillGrid ==
    /\ \A j \in 1..Len(jobs) :
           GridFilled(jobs[j].race, Len(RealEntries(jobs[j].race)))
    /\ \A r \in DOMAIN races : races[r].status \in {"running", "finished"} =>
           GridFilled(races[r], Len(RealEntries(races[r])))

\* one streaming race was padded with a bot while another, already holding
\* BOT_GRID_TARGET real entrants, got none
BotsFillGridReached ==
    \E i \in 1..Len(jobs), j \in 1..Len(jobs) :
        /\ Len(RealEntries(jobs[i].race)) \in 1..(BOT_GRID_TARGET - 1)
        /\ \E e \in 1..Len(jobs[i].race.entries) : IsBot(jobs[i].race.entries[e].player_id)
        /\ Len(RealEntries(jobs[j].race)) = BOT_GRID_TARGET
        /\ Len(jobs[j].race.entries) = BOT_GRID_TARGET


\* the player record after the reward of a finishing position and one race of wear
Rewarded(player, position, event_type) ==
    [player EXCEPT
        !.credits = @ + (IF position \in DOMAIN FINISH_REWARDS
                         THEN FINISH_REWARDS[position] ELSE DEFAULT_REWARD),
        !.races_entered = @ + 1,
        !.car = apply_wear(@, event_type)]

PositionOf(results, player_id) ==
    results[CHOOSE i \in 1..Len(results) : results[i].player_id = player_id].position

\* the race gets its finished status in the step
Finishes(race_id) ==
    races[race_id].status # "finished" /\ races'[race_id].status = "finished"

\* what a step does to the player records, by the races it finishes
RewardStep ==
    /\ \A r \in DOMAIN races :
           /\ Finishes(r) =>
                 \A p \in DOMAIN players :
                     players'[p] = IF Entered(races[r], p)
                                   THEN Rewarded(players[p],
                                                 PositionOf(races'[r].results, p),
                                                 races[r].event_type)
                                   ELSE players[p]
           /\ races[r].status = "finished" => races'[r].status = "finished"
    /\ (\A r \in DOMAIN races : ~Finishes(r)) =>
           \A p \in DOMAIN players :
               players'[p].races_entered = players[p].races_entered

\* C12: the reward loop gives a player with a result the reward of its
\* position (the default beyond the table), one more race entered and the
\* wear of its current car, and writes nothing for a bot; the step that
\* finishes a race does this to exactly the real entrants of that race, a
\* finished race never finishes again, and no other step rewards anybody
RewardedOnce ==
    /\ [](\A pos \in 1..MaxPosition, i \in 1..Len(slots) :
             /\ \A p \in DOMAIN players :
                    ApplyRewards(players, <<[player_id |-> p, position |-> pos]>>,
                                 slots[i].event_type, 1)
                      = [players EXCEPT ![p] = Rewarded(@, pos, slots[i].event_type)]
             /\ ApplyRewards(players, <<[player_id |-> <<BOT_PLAYER_ID_PREFIX, 0>>,
                                         position |-> pos]>>,
                             slots[i].event_type, 1) = players)
    /\ [][RewardStep]_vars

\* a finished race rewarded a real entrant who had repaired or upgraded the
\* car after the lock: the worn car descends from the current one
RewardedOnceReached ==
    \E r \in DOMAIN races :
        /\ races[r].status = "finished"
        /\ \E i \in 1..Len(races[r].entries) :
               /\ races[r].entries[i].player_id \in DOMAIN players
               /\ players[races[r].entries[i].player_id].races_entered
                      > InitPlayers[races[r].entries[i].player_id].races_entered
               /\ \E s \in SlotSet :
                      players[races[r].entries[i].player_id].car[s].readiness
                          > races[r].entries[i].locked_car[s].readiness


(***************************************************************************)
(* Simulator properties, over the calls of simulate_race.                  *)
(***************************************************************************)
\* the number of entries of the race that have a locked car
LockedCount(race) == Cardinality({i \in 1..Len(race.entries) : HasCar(race.entries[i])})

\* C13: the list simulate_race returns has one result per entry with a locked
\* car, of those entries' players, the result at index pos has position pos
\* (the positions are exactly 1..k), and the result scores do not increase
\* along the list
PositionsRanked ==
    \A c \in 1..Len(jobs) :
        /\ Len(jobs[c].results) = LockedCount(jobs[c].race)
        /\ {jobs[c].results[pos].player_id : pos \in 1..Len(jobs[c].results)}
              = {jobs[c].race.entries[i].player_id :
                    i \in {e \in 1..Len(jobs[c].race.entries) : HasCar(jobs[c].race.entries[e])}}
        /\ \A pos \in 1..Len(jobs[c].results) :
               /\ jobs[c].results[pos].position = pos
               /\ pos > 1 => jobs[c].results[pos - 1].result_score
                                 >= jobs[c].results[pos].result_score

\* a call on a full grid whose last entry won with a score above the others
PositionsRankedReached ==
    \E c \in 1..Len(jobs) :
        /\ Len(jobs[c].results) = MaxSimEntries
        /\ jobs[c].results[1].player_id = jobs[c].race.entries[MaxSimEntries].player_id
        /\ jobs[c].results[1].result_score > jobs[c].results[2].result_score
        /\ jobs[c].results[2].result_score > jobs[c].results[3].result_score

\* C14: two calls of simulate_race on the same race return the same list, in
\* every field of every result
SimulateDeterministic ==
    \A c, d \in 1..Len(jobs) :
        jobs[c].race = jobs[d].race => jobs[c].results = jobs[d].results

\* C15: a result with dnf set has result score 0 and a position after that of
\* every result with a positive score
DnfLast ==
    \A c \in 1..Len(jobs) :
        \A a \in 1..Len(jobs[c].results) :
            jobs[c].results[a].dnf =>
                /\ jobs[c].results[a].result_score = 0
                /\ \A b \in 1..Len(jobs[c].results) :
                       jobs[c].results[b].result_score > 0
                           => jobs[c].results[a].position > jobs[c].results[b].position

\* the first entry of the race did not finish and two others scored
DnfLastReached ==
    \E c \in 1..Len(jobs) :
        /\ Len(jobs[c].results) = 3
        /\ jobs[c].results[3].dnf
        /\ jobs[c].results[3].player_id = jobs[c].race.entries[1].player_id
        /\ jobs[c].results[2].result_score > 0

\* C16: the counterfactual positions of a call are a permutation of 1..k, and
\* when every luck delta is 0 each counterfactual position is the position
CounterfactualIsLuck ==
    \A c \in 1..Len(jobs) :
        /\ {jobs[c].results[pos].counterfactual_position : pos \in 1..Len(jobs[c].results)}
              = 1..Len(jobs[c].results)
        /\ (\A pos \in 1..Len(jobs[c].results) : jobs[c].results[pos].luck_delta = 0)
              => \A pos \in 1..Len(jobs[c].results) :
                     jobs[c].results[pos].counterfactual_position
                         = jobs[c].results[pos].position

\* C17: a race with an entry that has no locked car gets the list the race
\* without that entry gets (and the call returns: nothing is raised)
UnlockedSkipped ==
    \A c \in 1..Len(jobs) :
        /\ ~SimulateRaises(jobs[c].race)
        /\ \A i \in 1..Len(jobs[c].race.entries) :
               ~HasCar(jobs[c].race.entries[i]) =>
                   \A choices \in [1..MaxSimEntries -> 1..LuckTagChoices] :
                       jobs[c].results
                           = WithLuckTags(jobs[c].results, choices) =>
                       jobs[c].results
                           = WithLuckTags(
                                 simulate_race([jobs[c].race EXCEPT
                                                   !.entries = RemoveAt(@, i)]),
                                 choices)

\* a call on a race whose middle entry has no locked car, the others scoring
UnlockedSkippedReached ==
    \E c \in 1..Len(jobs) :
        /\ Len(jobs[c].race.entries) = 3
        /\ ~HasCar(jobs[c].race.entries[2])
        /\ Len(jobs[c].results) = 2


(***************************************************************************)
(* Track generation properties.                                            *)
(***************************************************************************)
Adjacent(a, b) ==
    \/ a[1] = b[1] /\ (a[2] = b[2] + 1 \/ b[2] = a[2] + 1)
    \/ a[2] = b[2] /\ (a[1] = b[1] + 1 \/ b[1] = a[1] + 1)

\* distinct cells of the n x n grid, each next to the one before it
SimpleChain(path, n) ==
    /\ \A i \in 1..Len(path) : path[i][1] \in 0..(n - 1) /\ path[i][2] \in 0..(n - 1)
    /\ \A i, j \in 1..Len(path) : path[i] = path[j] => i = j
    /\ \A i \in 1..(Len(path) - 1) : Adjacent(path[i], path[i + 1])

Returned == walk.returned \in {"walk", "oval"}

\* C18: the path a walk is building is a chain of distinct adjacent in-grid
\* cells from the start cell, and the path_order generate_track returns, from
\* a walk or from the oval fallback, is one simple closed cycle of adjacent
\* in-grid cells
TrackIsCycle ==
    /\ walk.returned = "no" =>
           SimpleChain(walk.path, walk.n) /\ walk.path[1] = Start
    /\ walk.returned # "raised"
    /\ Returned =>
           /\ SimpleChain(walk.track.path_order, walk.n)
           /\ Len(walk.track.path_order) >= 4
           /\ Adjacent(walk.track.path_order[Len(walk.track.path_order)],
                       walk.track.path_order[1])

\* a walk closed its loop at the second attempt
TrackIsCycleReached ==
    /\ walk.returned = "walk"
    /\ walk.attempt = 2

\* C19: the returned path has at least max(TRACK_MIN_STEPS, 2n) cells, from a
\* walk or from the oval fallback
PathLongEnough ==
    Returned => Len(walk.track.path_order) >= Max2(TRACK_MIN_STEPS, 2 * walk.n)

\* the cells on the border of the rectangle inset by one cell from the grid
InsetBorder(n) ==
    {c \in (1..(n - 2)) \X (1..(n - 2)) :
        c[1] \in {1, n - 2} \/ c[2] \in {1, n - 2}}

\* what holds of a call of generate_track at every moment
TrackBounded ==
    /\ walk.returned # "raised"
    /\ walk.attempt <= TRACK_MAX_RETRIES + 1
    /\ walk.steps <= max_steps(walk.n)
    /\ walk.returned = "walk" => walk.attempt <= TRACK_MAX_RETRIES
    /\ walk.returned = "oval" =>
           /\ walk.attempt = TRACK_MAX_RETRIES + 1
           /\ Cells(walk.track.path_order) = InsetBorder(walk.n)
           /\ Len(walk.track.path_order) = Cardinality(InsetBorder(walk.n))

\* C20: generate_track never raises and always returns a track, after at
\* most TRACK_MAX_RETRIES attempts of at most n * n iterations each; the
\* track returned when every attempt failed is the oval along the rectangle
\* inset by one cell
GenerateReturns == []TrackBounded /\ <>Returned

\* every attempt on the 5 x 5 grid failed and the oval was returned
GenerateReturnsReached ==
    /\ walk.returned = "oval"
    /\ walk.n = 5


\* C21: a call of generate_track with a seed returns the path_order and the
\* tiles every earlier call with the same n and seed returned
SeededTrackRepeats ==
    walk.seeded /\ Returned =>
        \A c \in 1..Len(walk.earlier) :
            /\ walk.earlier[c].path_order = walk.track.path_order
            /\ walk.earlier[c].tiles = walk.track.tiles

\* a second call returned a track that a walk closed after a failed attempt
SeededTrackRepeatsReached ==
    /\ walk.seeded
    /\ walk.returned = "walk"
    /\ walk.attempt = 2
    /\ Len(walk.earlier) = 1
    /\ \E i \in 1..Len(walk.track.tiles) : walk.track.tiles[i].type = "curve"


(***************************************************************************)
(* Speed profile properties.                                               *)
(***************************************************************************)
\* the speeds are one per path tile, positive and at most the raw target
BelowTargets(speed2, raw) ==
    /\ Len(speed2) = Len(raw)
    /\ \A i \in 1..Len(speed2) :
           /\ speed2[i] > 0
           /\ speed2[i] <= raw[i]
           /\ raw[i] \in {Square(CHICANE_SPEED_FPS), Square(CORNER_SPEED_FPS),
                          Square(TOP_SPEED_FPS)}

WithinTargets ==
    /\ Len(profile.speed2) = Len(profile.track.path_order)
    /\ BelowTargets(profile.speed2, RawTargets(profile.track))

\* C22: at every point of build_speed_profile, and so in the list returned,
\* there is one speed per path tile, each positive and at most the raw target
\* of the tile's type; no step of a sweep raises a speed
ProfileBelowTarget ==
    /\ []WithinTargets
    /\ [][\A i \in 1..Len(profile.speed2) :
              profile.speed2'[i] <= profile.speed2[i]]_vars

\* a profile was returned for a track with a chicane, lowered on a straight
ProfileBelowTargetReached ==
    /\ profile.done
    /\ \E i \in 1..Len(profile.track.tiles) : profile.track.tiles[i].type = "chicane"
    /\ \E i \in 1..Len(profile.speed2) :
           /\ TileTypeAt(profile.track, profile.track.path_order[i]) = "straight"
           /\ profile.speed2[i] < Square(TOP_SPEED_FPS)

\* C23: in the returned profile every tile satisfies the braking constraint
\* against the next tile and the acceleration constraint against the
\* previous tile, up to the tolerance
ProfileConsistent ==
    profile.done =>
        \A i \in 1..Len(profile.speed2) :
            /\ ~Exceeds(profile.speed2[i],
                        profile.speed2[NextTile(i, Len(profile.speed2))] + BrakeGain)
            /\ ~Exceeds(profile.speed2[i],
                        profile.speed2[PrevTile(i, Len(profile.speed2))] + AccelGain)


(***************************************************************************)
(* Tick stream properties.  stream.cars_data is the snapshot yielded last. *)
(***************************************************************************)
\* C24: the progress of every entrant in a snapshot is within [0, 1], and
\* from one snapshot of a stream to the next it does not decrease
ProgressMonotone ==
    /\ [](\A i \in 1..Len(stream.cars_data) :
             stream.cars_data[i].progress \in 0..10000)
    /\ [][\A i \in 1..Len(stream.cars_data) :
              stream.cars_data'[i].progress >= stream.cars_data[i].progress]_vars

\* a snapshot with a car under way, after a DNF car stopped beyond its stop point
ProgressMonotoneReached ==
    /\ Len(stream.cars_data) = 2
    /\ stream.cars_data[1].progress \in 1..9999
    /\ stream.cars_data[2].incident = "dnf"
    /\ stream.cars_data[2].progress > stream.dnf_stop

\* C25: in the last snapshot of a stream every entrant that is not DNF has
\* progress 1.0 and every DNF entrant has its stop fraction as progress
TerminalProgress ==
    stream.status = "exhausted" =>
        \A i \in 1..Len(stream.cars_data) :
            stream.cars_data[i].progress
                = IF stream.results[i].dnf THEN stream.dnf_stop ELSE 10000

\* what holds of a stream at every moment
StreamBounded ==
    /\ stream.tick_num <= MAX_TICKS
    /\ stream.status = "exhausted" => StreamOver(stream)
    /\ stream.tick_num > 0 => Len(stream.cars_data) = Len(stream.results)

\* C26: a stream yields at most MAX_TICKS snapshots and is then exhausted,
\* also when no entrant ever finishes
StreamFinite == []StreamBounded /\ <>(stream.status = "exhausted")

\* the ceiling ended a stream in which no entrant had finished
StreamFiniteReached ==
    /\ stream.status = "exhausted"
    /\ stream.tick_num = MAX_TICKS
    /\ stream.leader_finished_tick = 0
    /\ \A i \in 1..Len(stream.car) : stream.car[i].finished = 0

\* C27: a snapshot in which a DNF entrant is at or beyond its stop point
\* carries dnf_start or dnf for it, with speed 0, and no snapshot before does;
\* dnf_start is carried once, and by the end of the stream it has been
DnfStartOnce ==
    \A i \in 1..Len(stream.cars_data) :
        stream.results[i].dnf =>
            /\ stream.car[i].pos >= stream.dnf_stop * (stream.total_distance \div 10000)
                  <=> stream.cars_data[i].incident # "none"
            /\ stream.cars_data[i].incident # "none" => stream.cars_data[i].speed = 0
            /\ stream.cars_data[i].incident = "dnf_start" <=> stream.car[i].finished = stream.tick_num
            /\ stream.status = "exhausted" => stream.car[i].fired


(***************************************************************************)
(* Wear properties                                                         *)
(***************************************************************************)
\* the car returned keeps the tier of every slot and has every readiness
\* at least 0 and at most that of the car passed
WornFrom(car, new_car) ==
    \A s \in SlotSet :
        /\ new_car[s].tier = car[s].tier
        /\ new_car[s].readiness >= 0
        /\ new_car[s].readiness <= car[s].readiness

\* C28: for every car and every event type, known or not, apply_wear returns
\* a car with the same tiers and readiness in [0, readiness before], and the
\* car passed to it is after the call what it was before
WearLowers ==
    /\ [](\A i \in 1..Len(jobs) : WornFrom(jobs[i].car, jobs[i].new_car))
    /\ [][\A player_id \in DOMAIN players :
              /\ jobs'[1].car = players[player_id].car
              /\ WornFrom(players[player_id].car, players'[player_id].car)]_vars

\* an unknown event type wore a car of mixed tiers, one slot down to the floor
WearLowersReached ==
    /\ jobs # <<>>
    /\ jobs[1].event_type \notin DOMAIN WEAR_MULTIPLIERS
    /\ jobs[1].car["engine"].tier = "performance"
    /\ jobs[1].car["fuel"].readiness > 0
    /\ jobs[1].new_car["fuel"].readiness = 0
    /\ jobs[1].new_car["tires"].readiness \in 1..404


(***************************************************************************)
(* Scoring properties.  Result fields are in hundredths.                   *)
(***************************************************************************)
\* bq * w + ef * 0.35 + rs * 0.25 + luck of a result, in units of 0.0001
WeightedSum(r, event_type) ==
    r.build_quality * (IF event_type = "time_trial" THEN 50 ELSE 40)
    + r.event_fit * 35 + r.readiness_score * 25 + r.luck_delta * 100

Clamped(x) == Max2(0, Min2(1000000, x))

\* the fields of a result are rounded to two decimals: 0.005 on the score,
\* and 0.005 on each of the three components, weighted
ScoreTolerance == 105

\* C29: the score of a DNF result is 0, that of any other result is
\* bq * w + ef * 0.35 + rs * 0.25 + luck clamped to [0, 100], with w = 0.50
\* for a time trial and 0.40 otherwise; every score is within [0, 100]
ScoreFormula ==
    \A c \in 1..Len(jobs) :
        \A a \in 1..Len(jobs[c].results) :
            /\ jobs[c].results[a].result_score \in 0..10000
            /\ jobs[c].results[a].dnf => jobs[c].results[a].result_score = 0
            /\ ~jobs[c].results[a].dnf =>
                   /\ jobs[c].results[a].result_score * 100
                         <= Clamped(WeightedSum(jobs[c].results[a], jobs[c].race.event_type))
                            + ScoreTolerance
                   /\ jobs[c].results[a].result_score * 100
                         >= Clamped(WeightedSum(jobs[c].results[a], jobs[c].race.event_type))
                            - ScoreTolerance

\* a time trial was scored; one result was clamped at 100, one was below it,
\* and one did not finish
ScoreFormulaReached ==
    \E c \in 1..Len(jobs) :
        /\ jobs[c].race.event_type = "time_trial"
        /\ Len(jobs[c].results) = 3
        /\ jobs[c].results[1].result_score = 10000
        /\ WeightedSum(jobs[c].results[1], jobs[c].race.event_type) > 1000000 + ScoreTolerance
        /\ jobs[c].results[2].result_score \in 1..9999
        /\ jobs[c].results[3].dnf

\* the locked car of the entrant a result is about
LockedCarOf(race, player_id) ==
    LET i == CHOOSE i \in 1..Len(race.entries) : race.entries[i].player_id = player_id
    IN  race.entries[i].locked_car

\* the slots of the car with readiness under 20, in slot order
LowSlots(car) ==
    LET Low(s) == car[s].readiness < 200
    IN  SelectSeq(SLOT_NAMES, Low)

\* the rolls that came out under 0.10, by the place of the slot in LowSlots
FailedRolls(car, rng) == {k \in 1..Len(LowSlots(car)) : rng[k] < 10}

\* dnf and dnf_slot of a result are as the rolls of the car's low slots say
DnfAsRolled(r, car, rng) ==
    /\ r.dnf <=> FailedRolls(car, rng) # {}
    /\ r.dnf <=> r.dnf_slot # NoSlot
    /\ r.dnf => r.dnf_slot = LowSlots(car)[MinOf(FailedRolls(car, rng))]
    /\ (\A s \in SlotSet : car[s].readiness >= 200) => ~r.dnf

\* C30: an entrant is DNF only if a slot of its car has readiness under 20,
\* dnf_slot is the first slot in order under 20 whose roll failed, and dnf
\* is set exactly when dnf_slot is
DnfFromLowSlot ==
    \A c \in 1..Len(jobs) :
        \A a \in 1..Len(jobs[c].results) :
            DnfAsRolled(jobs[c].results[a],
                        LockedCarOf(jobs[c].race, jobs[c].results[a].player_id),
                        _seeded_rng(jobs[c].race.id, jobs[c].results[a].player_id))

\* a car with low slots finished, a factory car finished, and a car went out
\* on a slot after its first low slot had passed its roll
DnfFromLowSlotReached ==
    \E c \in 1..Len(jobs) :
        \E a, b, d \in 1..Len(jobs[c].results) :
            /\ jobs[c].results[a].dnf
            /\ jobs[c].results[a].dnf_slot # "engine"
            /\ ~jobs[c].results[b].dnf
            /\ LowSlots(LockedCarOf(jobs[c].race, jobs[c].results[b].player_id)) # <<>>
            /\ ~jobs[c].results[d].dnf
            /\ LockedCarOf(jobs[c].race, jobs[c].results[d].player_id) = CarSlots


(***************************************************************************)
(* Ranking on ties                                                         *)
(***************************************************************************)
\* the unrounded score simulate_race sorts the entry by
ScoreOf(race, i) ==
    RawResult(race.entries[i], race.event_type,
              _seeded_rng(race.id, race.entries[i].player_id)).score

\* C31: of two entrants with equal score the one earlier in the entry list
\* has the smaller position; this holds of DNF entrants, all at score 0
TiesStable ==
    \A c \in 1..Len(jobs) :
        \A i, j \in 1..Len(jobs[c].race.entries) :
            (/\ i < j
             /\ HasCar(jobs[c].race.entries[i])
             /\ HasCar(jobs[c].race.entries[j])
             /\ ScoreOf(jobs[c].race, i) = ScoreOf(jobs[c].race, j))
            => PositionOf(jobs[c].results, jobs[c].race.entries[i].player_id)
                 < PositionOf(jobs[c].results, jobs[c].race.entries[j].player_id)

\* two entrants tied on a positive score behind the last entry of the race
TiesStableReached ==
    \E c \in 1..Len(jobs) :
        /\ Len(jobs[c].results) = 3
        /\ jobs[c].results[1].player_id = jobs[c].race.entries[3].player_id
        /\ ScoreOf(jobs[c].race, 1) = ScoreOf(jobs[c].race, 2)
        /\ ScoreOf(jobs[c].race, 1) > 0
        /\ jobs[c].results[2].player_id = jobs[c].race.entries[1].player_id


(***************************************************************************)
(* Trailing grace                                                          *)
(***************************************************************************)
\* the ticks at which the entrants that reached the total distance did so
ArrivalTicks ==
    {stream.car[i].finished : i \in {k \in 1..Len(stream.car) :
        stream.car[k].finished # 0 /\ stream.car[k].pos = stream.total_distance}}

\* the ticks at which the entrants finished or stopped
DoneTicks == {stream.car[i].finished : i \in 1..Len(stream.car)}

\* C32: no snapshot has a tick number more than TRAILING_GRACE_TICKS after
\* the tick at which the first entrant reached the total distance, whoever is
\* still running; and once every entrant has finished or stopped, no snapshot
\* has a tick number more than one after the last of them did
GraceKept ==
    stream.tick_num > 0 =>
        /\ ArrivalTicks # {} =>
               stream.tick_num <= MinOf(ArrivalTicks) + TRAILING_GRACE_TICKS
        /\ 0 \notin DoneTicks => stream.tick_num <= MaxOf(DoneTicks) + 1

\* the stream ended at the end of the grace with an entrant still running
GraceKeptReached ==
    /\ stream.status = "exhausted"
    /\ ArrivalTicks # {}
    /\ stream.tick_num = MinOf(ArrivalTicks) + TRAILING_GRACE_TICKS
    /\ 0 \in DoneTicks


(***************************************************************************)
(* Tick stream against the ranking                                         *)
(***************************************************************************)
\* C33: of two entrants that are not DNF, the one with the higher result
\* score does not reach the total distance at a later tick than the other
FinishOrder ==
    \A i, j \in 1..Len(stream.car) :
        (/\ ~stream.results[i].dnf
         /\ ~stream.results[j].dnf
         /\ stream.results[i].result_score > stream.results[j].result_score
         /\ stream.car[j].finished # 0)
        => /\ stream.car[i].finished # 0
           /\ stream.car[i].finished <= stream.car[j].finished


(***************************************************************************)
(* Tile classification                                                     *)
(***************************************************************************)
\* the direction in which the path arrives at its cell i, and leaves it
ArrivalAt(path_order, i) ==
    <<path_order[i][1] - path_order[((i + Len(path_order) - 2) % Len(path_order)) + 1][1],
      path_order[i][2] - path_order[((i + Len(path_order) - 2) % Len(path_order)) + 1][2]>>

DepartureAt(path_order, i) ==
    <<path_order[(i % Len(path_order)) + 1][1] - path_order[i][1],
      path_order[(i % Len(path_order)) + 1][2] - path_order[i][2]>>

Perpendicular(a, b) == a[1] * b[1] + a[2] * b[2] = 0

\* the tile is the straight along the direction, or a curve of the two
\* directions, and the directions are not opposite
TileAsDirections(tile, came_from, going_to) ==
    /\ came_from # <<-going_to[1], -going_to[2]>>
    /\ came_from = going_to =>
           /\ tile.type = "straight"
           /\ tile.orientation = IF came_from[2] = 0 THEN "horizontal" ELSE "vertical"
    /\ came_from # going_to =>
           /\ Perpendicular(came_from, going_to)
           /\ tile.type = "curve"
           /\ tile.orientation \in {"NE", "NW", "SE", "SW"}

\* C34: in a track generate_track returns, from a walk or from the oval, the
\* path arrives at and leaves every cell in the same direction or in
\* perpendicular directions, never in opposite ones, and every tile is the
\* straight or the curve of its two directions
TilesClassified ==
    Returned =>
        \A i \in 1..Len(walk.track.tiles) :
            TileAsDirections(walk.track.tiles[i],
                             ArrivalAt(walk.track.path_order, i),
                             DepartureAt(walk.track.path_order, i))

\* a walk returned a track with straights of both axes and all four curves
TilesClassifiedReached ==
    /\ walk.returned = "walk"
    /\ {"horizontal", "vertical", "NE", "NW", "SE", "SW"}
          \subseteq {walk.track.tiles[i].orientation : i \in 1..Len(walk.track.tiles)}


(***************************************************************************)
(* Entries of a race                                                       *)
(***************************************************************************)
\* C35: while the persisted status of a race is open no entry of it has a
\* locked car, whatever was entered and withdrawn
OpenUnlocked ==
    \A race_id \in DOMAIN races :
        races[race_id].status = "open" =>
            \A i \in 1..Len(races[race_id].entries) :
                ~HasCar(races[race_id].entries[i])

\* a player is entered in an open race and, with a locked car, in a locked one
OpenUnlockedReached ==
    \E a, b \in DOMAIN races :
        /\ races[a].status = "open"
        /\ races[b].status = "locked"
        /\ \E i \in 1..Len(races[a].entries), j \in 1..Len(races[b].entries) :
               /\ races[a].entries[i].player_id = races[b].entries[j].player_id
               /\ HasCar(races[b].entries[j])


(***************************************************************************)
(* WebSocket properties                                                    *)
(***************************************************************************)
\* everything put into the queue of client c so far, in order
Received(c) ==
    ws.client[c].sent \o (IF c \in DOMAIN ws.q THEN ws.q[c] ELSE <<>>)

\* a running status first, then the ticks numbered from 1 without a gap,
\* finished only as the last message, all of the one race
InOrder(seq, race_id) ==
    \A k \in 1..Len(seq) :
        /\ seq[k].race = race_id
        /\ seq[k].type = "status" <=> k = 1
        /\ seq[k].type = "tick" => seq[k].tick = k - 1
        /\ seq[k].type = "finished" => k = Len(seq)

\* C36: a queue subscribed to a race before the race started running gets
\* the running status, then the ticks 1, 2, 3, ... in order without a gap,
\* then one finished message and nothing after it, and no message of
\* another race
SubscriberOrder ==
    \A c \in DOMAIN ws.client :
        ws.client[c].early => InOrder(Received(c), ws.client[c].race_id)


\* the finished message of the race was sent to client c or waits in its
\* queue
FinishedFor(c) ==
    \E k \in 1..Len(Received(c)) : Received(c)[k].type = "finished"

\* C37: a connected client of a race gets the finished message of the race
\* however its connection falls relative to the run: once the race is
\* persisted finished and its run_race_job has ended, a handler past
\* race_init has sent finished or has it in its queue
FinishedReceived ==
    \A c \in DOMAIN ws.client :
        (/\ ws.client[c].pc # "race_init"
         /\ ws.client[c].race_id \in DOMAIN races
         /\ races[ws.client[c].race_id].status = "finished"
         /\ \A i \in 1..Len(jobs) : jobs[i].race.id # ws.client[c].race_id)
        => FinishedFor(c)


(***************************************************************************)
(* Entry properties                                                        *)
(***************************************************************************)
\* no player id occurs twice in a sequence of entries or of results
PairwiseDistinct(seq) ==
    \A i, j \in 1..Len(seq) : seq[i].player_id = seq[j].player_id => i = j

\* C38: the entries of a race, real players and bots alike, have pairwise
\* distinct player ids, and so have its results, those a running job holds
\* and those persisted
IdsDistinct ==
    /\ \A race_id \in DOMAIN races :
           /\ PairwiseDistinct(races[race_id].entries)
           /\ PairwiseDistinct(races[race_id].results)
    /\ \A i \in 1..Len(jobs) :
           /\ PairwiseDistinct(jobs[i].race.entries)
           /\ PairwiseDistinct(jobs[i].results)

\* after three accepted requests a race finished with a real player and a
\* bot in its results
IdsDistinctReached ==
    /\ requests = MaxRequests
    /\ \E race_id \in DOMAIN races :
           /\ races[race_id].status = "finished"
           /\ Len(races[race_id].results) = BOT_GRID_TARGET
           /\ \E i, j \in 1..Len(races[race_id].results) :
                  /\ races[race_id].results[i].player_id \in PlayerIds
                  /\ races[race_id].results[j].player_id \notin PlayerIds

====
